---- MODULE Spec2Model ----
(***************************************************************************)
(* A model of the agent framework of agente-ia/src/agent.py, of the data   *)
(* pipeline of agente-ia/src/data_processor.py, of the training and        *)
(* inference drivers (train.py, inference.py), of two helpers of utils.py  *)
(* and of the music player of reproductor_musica.py.                       *)
(*                                                                         *)
(* Python strings are modelled as sequences of tokens: the empty string is *)
(* <<>>, concatenation and f-string formatting are \o, and a string is     *)
(* truthy exactly when it is not empty.  Python dictionaries are functions *)
(* with a finite domain of keys, read with Get as dict.get reads them.     *)
(***************************************************************************)
EXTENDS Integers, Sequences, FiniteSets, TLC

(***************************************************************************)
(* Bounds of the model.                                                    *)
(***************************************************************************)
MaxHistory == 3
MaxK == 2
MaxLimit == 4
MaxExamples == 3
MaxTrainCalls == 2

(***************************************************************************)
(* Values.                                                                 *)
(***************************************************************************)
\* Python's None where a string is expected: a token no string contains.
None == <<"<None>">>
\* A Python object that is absent (None) where an object is expected.
Absent == [present |-> FALSE]

EmptyDict == [k \in {} |-> TRUE]

\* dict.get(key, default)
Get(d, k, default) == IF k \in DOMAIN d THEN d[k] ELSE default

\* bool(x) of an optional string: None and "" are falsy.
Truthy(s) == s /= None /\ s /= <<>>

Inputs == {<<"q1">>, <<"q2">>}
Answers == {<<"a1">>}
Errors == {<<"timeout">>}
Contexts == {None, <<>>, <<"ctx">>}

Ex1 == [user |-> <<"eu1">>, assistant |-> <<"ea1">>]
Ex2 == [user |-> <<"eu2">>, assistant |-> <<"ea2">>]

Providers == {"openai", "anthropic", "cohere"}

ModelOpts == {EmptyDict} \cup {"model" :> [provider |-> p] : p \in Providers}
MemoryOpts == {EmptyDict} \cup {"memory" :> [max_messages |-> k] : k \in 0..MaxK}
PromptOpts ==
    { EmptyDict,
      "prompts" :> [system_prompt |-> <<>>],
      "prompts" :> [system_prompt |-> <<"sys">>, few_shot_examples |-> <<Ex1>>],
      "prompts" :> [few_shot_examples |-> <<Ex2, Ex1>>] }

\* The configuration documents a config path may hold.
Configs == {m @@ me @@ pr : m \in ModelOpts, me \in MemoryOpts, pr \in PromptOpts}

\* The environment of a constructor call: whether the provider libraries are
\* installed and whether the API keys are set.
Envs == [lib : BOOLEAN, key : BOOLEAN]

NotConfiguredMsg ==
    <<"Lo siento, el agente no está configurado correctamente. Revisa tu API key.">>
ErrorMsg(e) == <<"Lo siento, ocurrió un error: ">> \o e
NoCall == [op |-> "none"]
\* No snapshot file at the path.
NoFile == [exists |-> FALSE]
\* No result yet.
NoOut == [done |-> FALSE]

VARIABLES
    kind,           \* the variant of the agent
    phase,          \* "new": not constructed; "ready"; "failed": the constructor raised
    env,            \* the environment the constructor ran in
    config,         \* self.config
    provider,       \* self.provider
    client,         \* self.client: Absent, or the provider's client object
    history,        \* self.history
    now,            \* the clock datetime.now() reads
    call,           \* the last call made on the agent and its arguments
    raised,         \* whether the last call raised
    result,         \* the string the last call returned
    histRet,        \* the list the last get_history call returned
    messages,       \* the message list the last process call assembled
    backendCalled,  \* whether the last call invoked the text-generation backend
    hadError,       \* whether some backend call of the agent has failed
    model,          \* ClassifierAgent.model
    vectorizer,     \* ClassifierAgent.vectorizer
    classes,        \* ClassifierAgent.classes
    trainCalls,     \* the number of train calls made so far
    trainedOk,      \* whether some train call has returned normally
    name,           \* self.name
    version,        \* self.version
    disk,           \* the snapshot file save writes and load reads
    records,        \* the caller's list of records handed to the data pipeline
    rng,            \* the state of the global generator of the random module
    out,            \* what the last call of a module-level or helper function returned
    first,          \* an earlier split_data call, remembered with what it returned
    lista_reproduccion,   \* ReproductorMusica.lista_reproduccion
    cancion_actual,       \* ReproductorMusica.cancion_actual
    esta_reproduciendo,   \* ReproductorMusica.esta_reproduciendo
    esta_pausado,         \* ReproductorMusica.esta_pausado
    seleccion,            \* the index selected in lista_canciones, -1 for none
    sonando               \* the song the mixer last started, "" for none

convVars == <<env, config, provider, client, messages, backendCalled, hadError>>
clfVars == <<model, vectorizer, classes, trainCalls, trainedOk>>
persistVars == <<name, version, disk>>
dataVars == <<records, rng, out, first>>
playerVars == <<lista_reproduccion, cancion_actual, esta_reproduciendo, esta_pausado,
                seleccion, sonando>>

vars == <<kind, phase, env, config, provider, client, history, now, call,
          raised, result, histRet, messages, backendCalled, hadError, model,
          vectorizer, classes, trainCalls, trainedOk, name, version, disk,
          records, rng, out, first, lista_reproduccion, cancion_actual,
          esta_reproduciendo, esta_pausado, seleccion, sonando>>

(***************************************************************************)
(* BaseAgent                                                               *)
(***************************************************************************)
\* Python's seq[start:] for any integer start.
SliceFrom(s, start) ==
    LET n == Len(s)
        lo == IF start < 0
              THEN (IF n + start < 0 THEN 0 ELSE n + start)
              ELSE (IF start > n THEN n ELSE start)
    IN  SubSeq(s, lo + 1, n)

\* BaseAgent.__init__: the name and the version read from the configuration.
DefaultName == <<"Agent">>
DefaultVersion == <<"1.0.0">>
AgentName(cfg) == Get(Get(cfg, "agent", EmptyDict), "name", DefaultName)
AgentVersion(cfg) == Get(Get(cfg, "agent", EmptyDict), "version", DefaultVersion)

\* No music player is involved: the fields of ReproductorMusica keep the
\* values its constructor gives them.
NoPlayer ==
    /\ lista_reproduccion = <<>>
    /\ cancion_actual = 0 - 1
    /\ esta_reproduciendo = FALSE
    /\ esta_pausado = FALSE
    /\ seleccion = 0 - 1
    /\ sonando = ""

\* No module-level function has been called and no snapshot file exists.
NothingElse ==
    /\ disk = NoFile
    /\ records = <<>>
    /\ rng = 0
    /\ out = NoOut
    /\ first = NoOut
    /\ NoPlayer

\* An optional integer argument: NoLimit is limit=None.
NoLimit == [given |-> FALSE]
Limit(n) == [given |-> TRUE, n |-> n]

\* get_history: "if limit:" is false for None and for 0.
GetHistory(h, limit) ==
    IF limit.given /\ limit.n /= 0 THEN SliceFrom(h, 0 - limit.n) ELSE h

\* add_to_history with the new interaction put first instead of last.
AddToHistory_Prepend(h, t, user_input, agent_response) ==
    <<[timestamp |-> t, user |-> user_input, agent |-> agent_response]>> \o h

\* add_to_history keeping a window of the two newest interactions
AddToHistory_Window(h, t, user_input, agent_response) ==
    SliceFrom(Append(h, [timestamp |-> t, user |-> user_input,
                         agent |-> agent_response]), 0 - 2)

\* add_to_history
AddToHistory(h, t, user_input, agent_response) ==
    Append(h, [timestamp |-> t, user |-> user_input, agent |-> agent_response])

(***************************************************************************)
(* ConversationalAgent                                                     *)
(***************************************************************************)
Msg(role, content) == [role |-> role, content |-> content]

RECURSIVE ExampleMsgs(_)
ExampleMsgs(examples) ==
    IF examples = <<>> THEN <<>>
    ELSE <<Msg("user", Head(examples).user),
           Msg("assistant", Head(examples).assistant)>>
         \o ExampleMsgs(Tail(examples))

RECURSIVE HistoryMsgs(_)
HistoryMsgs(recent) ==
    IF recent = <<>> THEN <<>>
    ELSE <<Msg("user", Head(recent).user),
           Msg("assistant", Head(recent).agent)>>
         \o HistoryMsgs(Tail(recent))

\* _build_messages
BuildMessages(cfg, h, input_text, context) ==
    LET prompts == Get(cfg, "prompts", EmptyDict)
        system_prompt == Get(prompts, "system_prompt", <<>>)
        m1 == IF Truthy(system_prompt)
              THEN <<Msg("system", system_prompt)>> ELSE <<>>
        examples == Get(prompts, "few_shot_examples", <<>>)
        m2 == m1 \o ExampleMsgs(examples)
        memory_config == Get(cfg, "memory", EmptyDict)
        max_messages == Get(memory_config, "max_messages", 5)
        recent_history == GetHistory(h, Limit(max_messages))
        m3 == m2 \o HistoryMsgs(recent_history)
        m4 == IF Truthy(context)
              THEN Append(m3, Msg("system", <<"Contexto: ">> \o context))
              ELSE m3
    IN  Append(m4, Msg("user", input_text))

\* _init_client: the client it leaves in self.client, or "raise" when the
\* provider's constructor raises something other than ImportError.  With the
\* library installed and no API key, the constructor either raises or returns
\* a client that fails on use (ctorRaises chooses).
InitClient(p, e, ctorRaises) ==
    IF p \in {"openai", "anthropic"}
    THEN IF ~e.lib THEN [raise |-> FALSE, client |-> Absent]
         ELSE IF ~e.key /\ ctorRaises THEN [raise |-> TRUE, client |-> Absent]
         ELSE [raise |-> FALSE, client |-> [present |-> TRUE, provider |-> p]]
    ELSE [raise |-> FALSE, client |-> Absent]

\* ConversationalAgent.__init__ (with BaseAgent.__init__)
ConvConstruct(cfg, e, ctorRaises) ==
    /\ phase = "new"
    /\ kind = "conversational"
    /\ LET p == Get(Get(cfg, "model", EmptyDict), "provider", "openai")
           ic == InitClient(p, e, ctorRaises)
       IN  /\ env' = e
           /\ config' = cfg
           /\ provider' = p
           /\ client' = ic.client
           /\ phase' = IF ic.raise THEN "failed" ELSE "ready"
           /\ raised' = ic.raise
    /\ history' = <<>>
    /\ call' = [op |-> "init"]
    /\ result' = <<>>
    /\ histRet' = <<>>
    /\ messages' = <<>>
    /\ backendCalled' = FALSE
    /\ hadError' = FALSE
    /\ name' = AgentName(cfg)
    /\ version' = AgentVersion(cfg)
    /\ UNCHANGED <<kind, now, disk>>
    /\ UNCHANGED clfVars
    /\ UNCHANGED <<dataVars, playerVars>>

\* ConversationalAgent.process with the except branch recording the failed
\* exchange in history.
ConvProcess_RecordsFailure(input_text, context, outcome) ==
    /\ phase = "ready"
    /\ kind = "conversational"
    /\ (client.present /\ ~env.key) => ~outcome.ok
    /\ call' = [op |-> "process", input |-> input_text, context |-> context,
                outcome |-> outcome]
    /\ raised' = FALSE
    /\ histRet' = <<>>
    /\ IF ~client.present
       THEN /\ result' = NotConfiguredMsg
            /\ messages' = <<>>
            /\ backendCalled' = FALSE
            /\ UNCHANGED <<history, now, hadError>>
       ELSE /\ messages' = BuildMessages(config, history, input_text, context)
            /\ backendCalled' = TRUE
            /\ Len(history) < MaxHistory
            /\ now' = now + 1
            /\ IF ~outcome.ok
               THEN /\ result' = ErrorMsg(outcome.error)
                    /\ hadError' = TRUE
                    /\ history' = AddToHistory(history, now, input_text,
                                               ErrorMsg(outcome.error))
               ELSE /\ history' = AddToHistory(history, now, input_text,
                                               outcome.answer)
                    /\ result' = outcome.answer
                    /\ UNCHANGED hadError
    /\ UNCHANGED <<kind, phase, env, config, provider, client>>
    /\ UNCHANGED clfVars
    /\ UNCHANGED <<persistVars, dataVars, playerVars>>

\* ConversationalAgent.process.  outcome is what the backend call does: it
\* returns an answer or raises an error.
ConvProcess(input_text, context, outcome) ==
    /\ phase = "ready"
    /\ kind = "conversational"
    \* a backend called without credentials does not answer
    /\ (client.present /\ ~env.key) => ~outcome.ok
    /\ call' = [op |-> "process", input |-> input_text, context |-> context,
                outcome |-> outcome]
    /\ raised' = FALSE
    /\ histRet' = <<>>
    /\ IF ~client.present
       THEN /\ result' = NotConfiguredMsg
            /\ messages' = <<>>
            /\ backendCalled' = FALSE
            /\ UNCHANGED <<history, now, hadError>>
       ELSE /\ messages' = BuildMessages(config, history, input_text, context)
            /\ backendCalled' = (provider \in {"openai", "anthropic"})
            /\ IF provider \in {"openai", "anthropic"} /\ ~outcome.ok
               THEN /\ result' = ErrorMsg(outcome.error)
                    /\ hadError' = TRUE
                    /\ UNCHANGED <<history, now>>
               ELSE LET answer == IF provider \in {"openai", "anthropic"}
                                  THEN outcome.answer
                                  ELSE <<"Proveedor no soportado">>
                    IN  /\ Len(history) < MaxHistory
                        /\ history' = AddToHistory(history, now, input_text, answer)
                        /\ now' = now + 1
                        /\ result' = answer
                        /\ UNCHANGED hadError
    /\ UNCHANGED <<kind, phase, env, config, provider, client>>
    /\ UNCHANGED clfVars
    /\ UNCHANGED <<persistVars, dataVars, playerVars>>

\* BaseAgent.get_history as a call on the agent
GetHistoryCall(limit) ==
    /\ phase = "ready"
    /\ call' = [op |-> "get_history", limit |-> limit]
    /\ raised' = FALSE
    /\ histRet' = GetHistory(history, limit)
    /\ result' = <<>>
    /\ messages' = <<>>
    /\ backendCalled' = FALSE
    /\ UNCHANGED <<kind, phase, env, config, provider, client, history, now,
                   hadError>>
    /\ UNCHANGED clfVars
    /\ UNCHANGED <<persistVars, dataVars, playerVars>>

Outcomes == {[ok |-> TRUE, answer |-> a] : a \in Answers}
            \cup {[ok |-> FALSE, error |-> e] : e \in Errors}
Limits == {NoLimit} \cup {Limit(n) : n \in 0..MaxLimit}

InitConv ==
    /\ kind = "conversational"
    /\ phase = "new"
    /\ env = [lib |-> TRUE, key |-> TRUE]
    /\ config = EmptyDict
    /\ provider = "openai"
    /\ client = Absent
    /\ history = <<>>
    /\ now = 0
    /\ call = NoCall
    /\ raised = FALSE
    /\ result = <<>>
    /\ histRet = <<>>
    /\ messages = <<>>
    /\ backendCalled = FALSE
    /\ hadError = FALSE
    /\ model = Absent
    /\ vectorizer = Absent
    /\ classes = Absent
    /\ trainCalls = 0
    /\ trainedOk = FALSE
    /\ name = None
    /\ version = None
    /\ NothingElse

NextConv ==
    \/ \E cfg \in Configs, e \in Envs, r \in BOOLEAN : ConvConstruct(cfg, e, r)
    \/ \E i \in Inputs, c \in Contexts, o \in Outcomes : ConvProcess(i, c, o)
    \/ \E l \in Limits : GetHistoryCall(l)

SpecConv == InitConv /\ [][NextConv]_vars

(***************************************************************************)
(* ConversationalAgent._get_generation_params                              *)
(***************************************************************************)
ParamKeys == {"temperature", "max_tokens", "top_p"}
\* The keyword arguments of a call: any of the three parameters and "stop",
\* a keyword the method does not know.
KwKeys == ParamKeys \cup {"stop"}
ParamKwargs == {[k \in S |-> <<"kw", k>>] : S \in SUBSET KwKeys}
\* Configuration documents with and without agent.parameters.
ParamConfigs ==
    {EmptyDict, "agent" :> [name |-> <<"Bot">>]}
    \cup {"agent" :> [parameters |-> [k \in S |-> <<"cfg", k>>]] : S \in SUBSET ParamKeys}

\* _get_generation_params with the configured value looked up before the
\* keyword argument
GetGenerationParams_ConfigFirst(cfg, kwargs) ==
    LET agent_params == Get(Get(cfg, "agent", EmptyDict), "parameters", EmptyDict)
    IN  [temperature |-> Get(agent_params, "temperature",
                             Get(kwargs, "temperature", <<"0.7">>)),
         max_tokens |-> Get(agent_params, "max_tokens",
                            Get(kwargs, "max_tokens", <<"500">>)),
         top_p |-> Get(agent_params, "top_p", Get(kwargs, "top_p", <<"0.9">>))]

\* _get_generation_params
GetGenerationParams(cfg, kwargs) ==
    LET agent_params == Get(Get(cfg, "agent", EmptyDict), "parameters", EmptyDict)
    IN  [temperature |-> Get(kwargs, "temperature",
                             Get(agent_params, "temperature", <<"0.7">>)),
         max_tokens |-> Get(kwargs, "max_tokens",
                            Get(agent_params, "max_tokens", <<"500">>)),
         top_p |-> Get(kwargs, "top_p", Get(agent_params, "top_p", <<"0.9">>))]

\* A call of _get_generation_params(**kwargs) on a constructed agent
GenerationParamsCall(kwargs) ==
    /\ kind = "conversational"
    /\ phase = "ready"
    /\ call' = [op |-> "_get_generation_params", kwargs |-> kwargs]
    /\ raised' = FALSE
    /\ out' = [done |-> TRUE, value |-> GetGenerationParams(config, kwargs)]
    /\ UNCHANGED <<kind, phase, history, now, result, histRet>>
    /\ UNCHANGED convVars
    /\ UNCHANGED clfVars
    /\ UNCHANGED <<persistVars, records, rng, first, playerVars>>

\* A conversational agent constructed from one of ParamConfigs where the
\* provider library is not installed.
InitParams ==
    /\ kind = "conversational"
    /\ phase = "ready"
    /\ env = [lib |-> FALSE, key |-> FALSE]
    /\ config \in ParamConfigs
    /\ provider = "openai"
    /\ client = Absent
    /\ history = <<>>
    /\ now = 0
    /\ call = [op |-> "init"]
    /\ raised = FALSE
    /\ result = <<>>
    /\ histRet = <<>>
    /\ messages = <<>>
    /\ backendCalled = FALSE
    /\ hadError = FALSE
    /\ model = Absent
    /\ vectorizer = Absent
    /\ classes = Absent
    /\ trainCalls = 0
    /\ trainedOk = FALSE
    /\ name = AgentName(config)
    /\ version = AgentVersion(config)
    /\ NothingElse

NextParams == \E kw \in ParamKwargs : GenerationParamsCall(kw)

SpecParams == InitParams /\ [][NextParams]_vars

(***************************************************************************)
(* ClassifierAgent                                                         *)
(***************************************************************************)
NotTrainedMsg == <<"El modelo no está entrenado. Ejecuta train() primero.">>

\* f"Categoría: {prediction} (confianza: {confidence:.2%})", the confidence
\* given in percent.
ResultMsg(prediction, pct) ==
    <<"Categoría: ", prediction, " (confianza: ", ToString(pct), ".00%)">>

ClfInputs == {<<"q1">>}
Labels == {"agendar", "precio"}
\* "?" holds no token of two word characters: TfidfVectorizer finds no
\* vocabulary in it.
\* The raw training records: well-formed ones, and one without 'label'.
ExamplePool ==
    { [text |-> "cita", label |-> "agendar"],
      [text |-> "?", label |-> "precio"],
      [text |-> "cita"] }
TrainingSets == UNION {[1..n -> ExamplePool] : n \in 0..MaxExamples}
Confidences == {50, 100}

\* sklearn's train_test_split(test_size=0.2): the test part holds
\* ceil(0.2 * n) samples, the train part the rest; it raises when the train
\* part would be empty.
TestSize(n) == (2 * n + 9) \div 10
SplitRaises(n) == n - TestSize(n) <= 0
\* The test parts the split may draw from n samples.
TestParts(n) == {t \in SUBSET (1..n) : Cardinality(t) = TestSize(n)}

\* TfidfVectorizer.fit_transform raises ValueError (empty vocabulary) when no
\* training text holds a token.
FitTransformRaises(texts, trainIdx) == \A i \in trainIdx : texts[i] = "?"

\* ClassifierAgent.train.  testIdx is the test part train_test_split draws.
ClfTrain(training_data, testIdx) ==
    /\ phase = "ready"
    /\ kind = "classifier"
    /\ trainCalls < MaxTrainCalls
    /\ trainCalls' = trainCalls + 1
    /\ histRet' = <<>>
    /\ LET run == trainCalls + 1
           n == Len(training_data)
           wellFormed == \A i \in 1..n :
                            {"text", "label"} \subseteq DOMAIN training_data[i]
           texts == [i \in 1..n |-> training_data[i].text]
           labels == [i \in 1..n |-> training_data[i].label]
           trainIdx == (1..n) \ testIdx
           newClasses == [present |-> TRUE, run |-> run,
                          labels |-> {labels[i] : i \in 1..n}]
       IN  IF ~wellFormed
           THEN \* KeyError at line 356 or 357
                /\ raised' = TRUE
                /\ result' = <<>>
                /\ call' = [op |-> "train", failedAt |-> "extract"]
                /\ UNCHANGED <<model, vectorizer, classes, trainedOk>>
           ELSE IF SplitRaises(n)
           THEN \* ValueError at line 361, after line 358
                /\ raised' = TRUE
                /\ result' = <<>>
                /\ call' = [op |-> "train", failedAt |-> "split"]
                /\ classes' = newClasses
                /\ UNCHANGED <<model, vectorizer, trainedOk>>
           ELSE IF FitTransformRaises(texts, trainIdx)
           THEN \* ValueError at line 367, after lines 358 and 366
                /\ raised' = TRUE
                /\ result' = <<>>
                /\ call' = [op |-> "train", failedAt |-> "fit_transform"]
                /\ classes' = newClasses
                /\ vectorizer' = [present |-> TRUE, run |-> run, fitted |-> FALSE]
                /\ UNCHANGED <<model, trainedOk>>
           ELSE /\ raised' = FALSE
                /\ result' = <<"report">>
                /\ call' = [op |-> "train", failedAt |-> "none"]
                /\ classes' = newClasses
                /\ vectorizer' = [present |-> TRUE, run |-> run, fitted |-> TRUE]
                /\ model' = [present |-> TRUE, run |-> run,
                             labels |-> {labels[i] : i \in trainIdx}]
                /\ trainedOk' = TRUE
    /\ UNCHANGED <<kind, phase, history, now>>
    /\ UNCHANGED convVars
    /\ UNCHANGED <<persistVars, dataVars, playerVars>>

\* ClassifierAgent.process with the not-trained answer recorded in history.
ClfProcess_RecordsSentinel(input_text, prediction, pct) ==
    /\ phase = "ready"
    /\ kind = "classifier"
    /\ call' = [op |-> "process", input |-> input_text]
    /\ histRet' = <<>>
    /\ Len(history) < MaxHistory
    /\ raised' = FALSE
    /\ IF ~model.present \/ ~vectorizer.present
       THEN /\ result' = NotTrainedMsg
            /\ history' = AddToHistory(history, now, input_text, NotTrainedMsg)
       ELSE /\ vectorizer.fitted
            /\ prediction \in model.labels
            /\ pct * Cardinality(model.labels) >= 100
            /\ result' = ResultMsg(prediction, pct)
            /\ history' = AddToHistory(history, now, input_text,
                                       ResultMsg(prediction, pct))
    /\ now' = now + 1
    /\ UNCHANGED <<kind, phase>>
    /\ UNCHANGED convVars
    /\ UNCHANGED clfVars
    /\ UNCHANGED <<persistVars, dataVars, playerVars>>

\* ClassifierAgent.process.  prediction and pct are what model.predict and
\* max(model.predict_proba) give for the input.
ClfProcess(input_text, prediction, pct) ==
    /\ phase = "ready"
    /\ kind = "classifier"
    /\ call' = [op |-> "process", input |-> input_text]
    /\ histRet' = <<>>
    /\ IF ~model.present \/ ~vectorizer.present
       THEN /\ raised' = FALSE
            /\ result' = NotTrainedMsg
            /\ UNCHANGED <<history, now>>
       ELSE IF ~vectorizer.fitted
       THEN \* vectorizer.transform raises NotFittedError at line 324
            /\ raised' = TRUE
            /\ result' = <<>>
            /\ UNCHANGED <<history, now>>
       ELSE /\ prediction \in model.labels
            /\ pct * Cardinality(model.labels) >= 100
            /\ Len(history) < MaxHistory
            /\ raised' = FALSE
            /\ result' = ResultMsg(prediction, pct)
            /\ history' = AddToHistory(history, now, input_text,
                                       ResultMsg(prediction, pct))
            /\ now' = now + 1
    /\ UNCHANGED <<kind, phase>>
    /\ UNCHANGED convVars
    /\ UNCHANGED clfVars
    /\ UNCHANGED <<persistVars, dataVars, playerVars>>

\* The state ClassifierAgent.__init__ leaves (no configuration file).
InitClf ==
    /\ kind = "classifier"
    /\ phase = "ready"
    /\ env = [lib |-> TRUE, key |-> TRUE]
    /\ config = EmptyDict
    /\ provider = "openai"
    /\ client = Absent
    /\ history = <<>>
    /\ now = 0
    /\ call = [op |-> "init"]
    /\ raised = FALSE
    /\ result = <<>>
    /\ histRet = <<>>
    /\ messages = <<>>
    /\ backendCalled = FALSE
    /\ hadError = FALSE
    /\ model = Absent
    /\ vectorizer = Absent
    /\ classes = Absent
    /\ trainCalls = 0
    /\ trainedOk = FALSE
    /\ name = AgentName(EmptyDict)
    /\ version = AgentVersion(EmptyDict)
    /\ NothingElse

NextClf ==
    \/ \E d \in TrainingSets : \E t \in TestParts(Len(d)) : ClfTrain(d, t)
    \/ \E i \in ClfInputs, l \in Labels, c \in Confidences : ClfProcess(i, l, c)

SpecClf == InitClf /\ [][NextClf]_vars

(***************************************************************************)
(* CustomAgent, and BaseAgent.save and BaseAgent.load.                     *)
(*                                                                         *)
(* Documents hold strings, integers and dictionaries with string keys,     *)
(* which json.dump and json.load, and yaml.safe_load, carry over as they   *)
(* are; a snapshot on disk is the dictionary that was serialised.          *)
(***************************************************************************)
MaxClock == 3

\* A file that holds the document doc.
FileOf(doc) == [exists |-> TRUE, doc |-> doc]

CustomDocs ==
    { "agent" :> [name |-> <<"Bot">>, version |-> <<"2.0">>],
      "memory" :> [max_messages |-> 1] }
\* What a config path may point to: nothing, or a YAML document.
ConfigFiles == {NoFile} \cup {FileOf(d) : d \in CustomDocs}

\* Snapshot files that were not written by save.
ForeignSnapshots ==
    { [name |-> <<"Old">>],
      [version |-> <<"0.9">>, config |-> EmptyDict] }

CustomInputs == {<<"q1">>}

\* _load_config
LoadConfig(file) == IF file.exists THEN file.doc ELSE EmptyDict

\* CustomAgent.__init__ (BaseAgent.__init__)
CustomConstruct(file) ==
    /\ kind = "custom"
    /\ phase = "new"
    /\ config' = LoadConfig(file)
    /\ name' = AgentName(LoadConfig(file))
    /\ version' = AgentVersion(LoadConfig(file))
    /\ history' = <<>>
    /\ phase' = "ready"
    /\ call' = [op |-> "init", config_path |-> file]
    /\ raised' = FALSE
    /\ result' = <<>>
    /\ UNCHANGED <<kind, env, provider, client, now, histRet, messages,
                   backendCalled, hadError, disk>>
    /\ UNCHANGED clfVars
    /\ UNCHANGED <<dataVars, playerVars>>

\* CustomAgent.process
CustomProcess(input_text) ==
    /\ kind = "custom"
    /\ phase = "ready"
    /\ Len(history) < MaxHistory
    /\ now < MaxClock
    /\ LET response == <<"[", ToString(now), "] Echo: ">> \o input_text
       IN  /\ history' = AddToHistory(history, now, input_text, response)
           /\ result' = response
    /\ now' = now + 1
    /\ call' = [op |-> "process", input_text |-> input_text]
    /\ raised' = FALSE
    /\ UNCHANGED <<kind, phase, histRet>>
    /\ UNCHANGED convVars
    /\ UNCHANGED clfVars
    /\ UNCHANGED <<persistVars, dataVars, playerVars>>

\* CustomAgent.train: logs and returns.
CustomTrain ==
    /\ kind = "custom"
    /\ phase = "ready"
    /\ call' = [op |-> "train"]
    /\ raised' = FALSE
    /\ result' = <<>>
    /\ UNCHANGED <<kind, phase, history, now, histRet>>
    /\ UNCHANGED convVars
    /\ UNCHANGED clfVars
    /\ UNCHANGED <<persistVars, dataVars, playerVars>>

\* ConversationalAgent.train without prepare_for_finetuning: logs and returns.
ConvTrain ==
    /\ kind = "conversational"
    /\ phase = "ready"
    /\ call' = [op |-> "train"]
    /\ raised' = FALSE
    /\ result' = <<>>
    /\ UNCHANGED <<kind, phase, history, now, histRet>>
    /\ UNCHANGED convVars
    /\ UNCHANGED clfVars
    /\ UNCHANGED <<persistVars, dataVars, playerVars>>

\* BaseAgent.add_to_history called on the agent directly
AddToHistoryCall(user_input, agent_response) ==
    /\ kind = "custom"
    /\ phase = "ready"
    /\ Len(history) < MaxHistory
    /\ now < MaxClock
    /\ history' = AddToHistory(history, now, user_input, agent_response)
    /\ now' = now + 1
    /\ call' = [op |-> "add_to_history", user_input |-> user_input,
                agent_response |-> agent_response]
    /\ raised' = FALSE
    /\ result' = <<>>
    /\ UNCHANGED <<kind, phase, histRet>>
    /\ UNCHANGED convVars
    /\ UNCHANGED clfVars
    /\ UNCHANGED <<persistVars, dataVars, playerVars>>

\* save_data of save with the history of the agent serialised too
SaveData_WithHistory(agentName, agentVersion, cfg, t) ==
    [name |-> agentName, version |-> agentVersion, config |-> cfg,
     timestamp |-> t, history |-> history]

\* save_data of save
SaveData(agentName, agentVersion, cfg, t) ==
    [name |-> agentName, version |-> agentVersion, config |-> cfg, timestamp |-> t]

\* BaseAgent.save: os.makedirs(os.path.dirname(path)) raises for a path with
\* no directory part, before anything is written.  The file keeps, next to
\* the document, the state of the agent that wrote it.
Save(hasDir) ==
    /\ kind = "custom"
    /\ phase = "ready"
    /\ call' = [op |-> "save", hasDir |-> hasDir]
    /\ raised' = ~hasDir
    /\ disk' = IF hasDir
               THEN [exists |-> TRUE,
                     doc |-> SaveData(name, version, config, now),
                     saver |-> [name |-> name, version |-> version,
                                config |-> config, entries |-> Len(history)]]
               ELSE disk
    /\ result' = <<>>
    /\ UNCHANGED <<kind, phase, history, now, histRet, name, version>>
    /\ UNCHANGED convVars
    /\ UNCHANGED clfVars
    /\ UNCHANGED <<dataVars, playerVars>>

\* The configuration of a loaded agent, the snapshot's merged over the one
\* read from config_path
LoadedConfig_Merged(saved_config, base) == saved_config @@ base

\* load: "if saved_config: agent.config = saved_config"
LoadedConfig(saved_config, base) ==
    IF saved_config /= EmptyDict THEN saved_config ELSE base

\* BaseAgent.load, called on CustomAgent: the agent of the model becomes the
\* one load returns.  With no file at the path, open raises.
Load(file) ==
    /\ kind = "custom"
    /\ call' = [op |-> "load", config_path |-> file]
    /\ IF ~disk.exists
       THEN /\ raised' = TRUE
            /\ UNCHANGED <<phase, config, name, version, history>>
       ELSE LET save_data == disk.doc
                saved_config == Get(save_data, "config", EmptyDict)
                base == LoadConfig(file)
            IN  /\ raised' = FALSE
                /\ phase' = "ready"
                /\ config' = LoadedConfig(saved_config, base)
                /\ name' = Get(save_data, "name", AgentName(base))
                /\ version' = Get(save_data, "version", AgentVersion(base))
                /\ history' = <<>>
    /\ result' = <<>>
    /\ UNCHANGED <<kind, env, provider, client, now, histRet, messages,
                   backendCalled, hadError, disk>>
    /\ UNCHANGED clfVars
    /\ UNCHANGED <<dataVars, playerVars>>

\* No agent constructed yet; the snapshot path holds nothing or a foreign file.
InitCustom ==
    /\ kind = "custom"
    /\ phase = "new"
    /\ env = [lib |-> TRUE, key |-> TRUE]
    /\ config = EmptyDict
    /\ provider = "openai"
    /\ client = Absent
    /\ history = <<>>
    /\ now = 0
    /\ call = NoCall
    /\ raised = FALSE
    /\ result = <<>>
    /\ histRet = <<>>
    /\ messages = <<>>
    /\ backendCalled = FALSE
    /\ hadError = FALSE
    /\ model = Absent
    /\ vectorizer = Absent
    /\ classes = Absent
    /\ trainCalls = 0
    /\ trainedOk = FALSE
    /\ name = None
    /\ version = None
    /\ disk \in {NoFile} \cup {FileOf(d) : d \in ForeignSnapshots}
    /\ records = <<>>
    /\ rng = 0
    /\ out = NoOut
    /\ first = NoOut
    /\ NoPlayer

NextCustom ==
    \/ \E f \in ConfigFiles : CustomConstruct(f)
    \/ \E i \in CustomInputs : CustomProcess(i)
    \/ CustomTrain
    \/ \E a \in Answers : AddToHistoryCall(<<"q2">>, a)
    \/ \E d \in BOOLEAN : Save(d)
    \/ \E f \in ConfigFiles : Load(f)
    \/ \E l \in {NoLimit, Limit(1)} : GetHistoryCall(l)

SpecCustom == InitCustom /\ [][NextCustom]_vars

\* An agent of any of the three variants.
InitAgents == InitConv \/ InitClf \/ InitCustom
NextAgents ==
    \/ kind = "conversational" /\ (NextConv \/ ConvTrain)
    \/ kind = "classifier" /\ NextClf
    \/ kind = "custom" /\ NextCustom
SpecAgents == InitAgents /\ [][NextAgents]_vars

(***************************************************************************)
(* data_processor.py: split_data.                                          *)
(*                                                                         *)
(* Ratios are decimal fractions counted in thousandths, so 0.7 is 700 and  *)
(* the tolerance 0.01 is 10; the ratio triples of the model keep clear of  *)
(* a sum at the tolerance itself, where the outcome of the floating-point  *)
(* comparison depends on rounding.  The generator of the random module is  *)
(* a small congruential generator with a global state.                     *)
(***************************************************************************)
MaxRecords == 3
RngModulus == 5

Abs(x) == IF x < 0 THEN 0 - x ELSE x

\* The lists handed to split_data: n distinct records, n up to MaxRecords.
SplitInputs == {[i \in 1..n |-> [id |-> i]] : n \in 0..MaxRecords}

\* <<train_ratio, val_ratio, test_ratio>> in thousandths.
RatioTriples ==
    { <<700, 150, 150>>, <<500, 250, 250>>, <<334, 333, 333>>, <<1000, 0, 0>>,
      <<700, 150, 155>>, <<700, 150, 145>>,
      <<700, 150, 165>>, <<700, 150, 135>>, <<600, 200, 100>>,
      <<1000, 1000, -1000>>, <<1500, -500, 0>>, <<1000, -500, 500>> }
Seeds == {42, 13}

\* "abs(total - 1.0) > 0.01" replaced by a test for a sum of exactly 1.0
SumRejected_Exact(total) == total /= 1000

\* abs(total - 1.0) > 0.01
SumRejected(total) == Abs(total - 1000) > 10

\* int(n * ratio) replaced by rounding to the nearest integer
IntOf_Round(n, ratio) == (2 * n * ratio + 1000) \div 2000

\* int(n * ratio): truncation towards zero
IntOf(n, ratio) ==
    IF n * ratio >= 0 THEN (n * ratio) \div 1000
    ELSE 0 - ((0 - n * ratio) \div 1000)

\* Python's seq[lo:hi] for any integers lo and hi.
PySlice(s, lo, hi) ==
    LET n == Len(s)
        norm(i) == IF i < 0 THEN (IF n + i < 0 THEN 0 ELSE n + i)
                   ELSE (IF i > n THEN n ELSE i)
    IN  SubSeq(s, norm(lo) + 1, norm(hi))

\* random.seed left out: the generator keeps the state it had
SeedState_Unseeded(seed, g) == g

\* random.seed(random_seed): the state depends on the seed alone
SeedState(seed, g) == seed % RngModulus

\* One draw advances the generator.
NextRng(g) == (2 * g + 1) % RngModulus

\* random.shuffle: for i from the last position down to the second, swap
\* x[i] with x[j], j drawn below i.  Returns the list and the generator.
RECURSIVE Shuffle(_, _, _)
Shuffle(x, i, g) ==
    IF i < 2 THEN [list |-> x, rng |-> g]
    ELSE LET j == (g % i) + 1
         IN  Shuffle([x EXCEPT ![i] = x[j], ![j] = x[i]], i - 1, NextRng(g))

\* split_data(data, train_ratio, val_ratio, test_ratio, random_seed) run
\* with the generator in state g
SplitData(data, ratios, seed, g) ==
    IF SumRejected(ratios[1] + ratios[2] + ratios[3])
    THEN [raised |-> TRUE, rng |-> g]
    ELSE LET sh == Shuffle(data, Len(data), SeedState(seed, g))
             shuffled_data == sh.list
             n == Len(shuffled_data)
             train_end == IntOf(n, ratios[1])
             val_end == train_end + IntOf(n, ratios[2])
         IN  [raised |-> FALSE,
              rng |-> sh.rng,
              value |-> <<PySlice(shuffled_data, 0, train_end),
                          PySlice(shuffled_data, train_end, val_end),
                          PySlice(shuffled_data, val_end, n)>>]

\* A split_data call on the caller's list; remember chooses whether the call
\* and its result are kept for comparison with later calls (latest tells
\* whether the call kept is the last one made).
SplitCall(ratios, seed, remember) ==
    LET r == SplitData(records, ratios, seed, rng)
        o == IF r.raised
             THEN [done |-> TRUE, raised |-> TRUE]
             ELSE [done |-> TRUE, raised |-> FALSE, value |-> r.value]
    IN  /\ call' = [op |-> "split_data", ratios |-> ratios, seed |-> seed]
        /\ raised' = r.raised
        /\ rng' = r.rng
        /\ out' = o
        /\ first' = IF remember
                    THEN [done |-> TRUE, latest |-> TRUE, ratios |-> ratios,
                          seed |-> seed, out |-> o]
                    ELSE IF first.done THEN [first EXCEPT !.latest = FALSE]
                    ELSE first
        /\ UNCHANGED <<kind, phase, history, now, result, histRet, records>>
        /\ UNCHANGED convVars
        /\ UNCHANGED clfVars
        /\ UNCHANGED <<persistVars, playerVars>>

\* No agent is involved: the module is imported, the caller holds a list and
\* the generator is in the state the interpreter seeded it with.
InitSplit ==
    /\ kind = "none"
    /\ phase = "new"
    /\ env = [lib |-> TRUE, key |-> TRUE]
    /\ config = EmptyDict
    /\ provider = "openai"
    /\ client = Absent
    /\ history = <<>>
    /\ now = 0
    /\ call = NoCall
    /\ raised = FALSE
    /\ result = <<>>
    /\ histRet = <<>>
    /\ messages = <<>>
    /\ backendCalled = FALSE
    /\ hadError = FALSE
    /\ model = Absent
    /\ vectorizer = Absent
    /\ classes = Absent
    /\ trainCalls = 0
    /\ trainedOk = FALSE
    /\ name = None
    /\ version = None
    /\ disk = NoFile
    /\ records \in SplitInputs
    /\ rng \in 0..(RngModulus - 1)
    /\ out = NoOut
    /\ first = NoOut
    /\ NoPlayer

NextSplit == \E ratios \in RatioTriples, seed \in Seeds, remember \in BOOLEAN :
                 SplitCall(ratios, seed, remember)

SpecSplit == InitSplit /\ [][NextSplit]_vars

(***************************************************************************)
(* data_processor.py: prepare_data.                                        *)
(***************************************************************************)
\* Raw records as the loaders return them: dictionaries whose values are
\* strings, empty strings or None.
RawPool ==
    { [user |-> <<"u">>, input |-> <<"i">>, question |-> <<"q">>,
       assistant |-> <<"a">>, context |-> <<"c">>],
      [input |-> <<"i">>, answer |-> <<"ans">>],
      [user |-> <<>>, input |-> None, question |-> <<"q">>, output |-> <<"o">>],
      [user |-> <<>>, assistant |-> <<>>, context |-> None],
      EmptyDict,
      [text |-> <<"t">>, label |-> <<"l">>],
      [input |-> <<"i">>, user |-> <<"u">>, category |-> <<"cat">>, label |-> <<>>],
      [class |-> <<"k">>] }

\* The lists handed to prepare_data.
RawLists == UNION {[1..n -> RawPool] : n \in 0..MaxRecords}

FormatTypes == {"conversational", "classifier", "other"}

\* "a or b" of Python: a when it is truthy, b otherwise.
PyOr(a, b) == IF Truthy(a) THEN a ELSE b

\* item.get(k): None when the key is absent.
ItemGet(item, k) == Get(item, k, None)

\* The alias chain of a field read with the second alias before the first
FirstOf_SecondAliasFirst(item, aliases) ==
    IF Len(aliases) = 1 THEN PyOr(ItemGet(item, aliases[1]), <<>>)
    ELSE PyOr(PyOr(PyOr(ItemGet(item, aliases[2]), ItemGet(item, aliases[1])),
                   ItemGet(item, aliases[3])), <<>>)

\* item.get(a1) or item.get(a2) or item.get(a3) or '' (the chain of a field
\* with one alias is item.get(a1) or '')
FirstOf(item, aliases) ==
    IF Len(aliases) = 1 THEN PyOr(ItemGet(item, aliases[1]), <<>>)
    ELSE PyOr(PyOr(PyOr(ItemGet(item, aliases[1]), ItemGet(item, aliases[2])),
                   ItemGet(item, aliases[3])), <<>>)

\* processed_item of one raw record
ProcessedItem(item, format_type) ==
    IF format_type = "conversational"
    THEN [user |-> FirstOf(item, <<"user", "input", "question">>),
          assistant |-> FirstOf(item, <<"assistant", "output", "answer">>),
          context |-> FirstOf(item, <<"context">>)]
    ELSE IF format_type = "classifier"
    THEN [text |-> FirstOf(item, <<"text", "input", "user">>),
          label |-> FirstOf(item, <<"label", "category", "class">>)]
    ELSE item

\* The filter keeping the records all of whose values are truthy
Keep_AllValues(processed_item) ==
    \A k \in DOMAIN processed_item : Truthy(processed_item[k])

\* any(v for v in processed_item.values() if v)
Keep(processed_item) ==
    \E k \in DOMAIN processed_item : Truthy(processed_item[k])

\* prepare_data(data, format_type)
RECURSIVE PrepareData(_, _)
PrepareData(data, format_type) ==
    IF data = <<>> THEN <<>>
    ELSE LET processed_item == ProcessedItem(Head(data), format_type)
             rest == PrepareData(Tail(data), format_type)
         IN  IF Keep(processed_item) THEN <<processed_item>> \o rest ELSE rest

\* A prepare_data call on the caller's list
PrepareCall(format_type) ==
    /\ call' = [op |-> "prepare_data", format_type |-> format_type]
    /\ raised' = FALSE
    /\ out' = [done |-> TRUE, value |-> PrepareData(records, format_type)]
    /\ UNCHANGED <<kind, phase, history, now, result, histRet, records, rng, first, playerVars>>
    /\ UNCHANGED convVars
    /\ UNCHANGED clfVars
    /\ UNCHANGED persistVars

\* No agent is involved: the caller holds a list of raw records.
InitPrepare ==
    /\ kind = "none"
    /\ phase = "new"
    /\ env = [lib |-> TRUE, key |-> TRUE]
    /\ config = EmptyDict
    /\ provider = "openai"
    /\ client = Absent
    /\ history = <<>>
    /\ now = 0
    /\ call = NoCall
    /\ raised = FALSE
    /\ result = <<>>
    /\ histRet = <<>>
    /\ messages = <<>>
    /\ backendCalled = FALSE
    /\ hadError = FALSE
    /\ model = Absent
    /\ vectorizer = Absent
    /\ classes = Absent
    /\ trainCalls = 0
    /\ trainedOk = FALSE
    /\ name = None
    /\ version = None
    /\ disk = NoFile
    /\ records \in RawLists
    /\ rng = 0
    /\ out = NoOut
    /\ first = NoOut
    /\ NoPlayer

NextPrepare == \E ft \in FormatTypes : PrepareCall(ft)

SpecPrepare == InitPrepare /\ [][NextPrepare]_vars

(***************************************************************************)
(* Module-level functions that involve no agent.                           *)
(***************************************************************************)
agentVars == <<kind, phase, history, now, result, histRet>>

\* No agent has been constructed: the variables of the agents keep the
\* values they have before any constructor runs.
NoAgent ==
    /\ kind = "none"
    /\ phase = "new"
    /\ env = [lib |-> TRUE, key |-> TRUE]
    /\ config = EmptyDict
    /\ provider = "openai"
    /\ client = Absent
    /\ history = <<>>
    /\ now = 0
    /\ result = <<>>
    /\ histRet = <<>>
    /\ messages = <<>>
    /\ backendCalled = FALSE
    /\ hadError = FALSE
    /\ model = Absent
    /\ vectorizer = Absent
    /\ classes = Absent
    /\ trainCalls = 0
    /\ trainedOk = FALSE
    /\ name = None
    /\ version = None

(***************************************************************************)
(* data_processor.py: load_json_file, load_jsonl_file, load_csv_file and   *)
(* load_training_data.                                                     *)
(*                                                                         *)
(* What is at data_path is held in disk: nothing, one entry, or a          *)
(* directory whose entries are listed in the order os.listdir returns      *)
(* them.  An entry has an extension, is a regular file or not, can be      *)
(* opened or not, and has a body: a JSON document (a list, an object, a    *)
(* scalar, or text that does not parse) or a sequence of lines, each a     *)
(* record, blank, or one that the parser or the decoder rejects.           *)
(***************************************************************************)
MaxFiles == 2

Rec(i) == [id |-> i]
RecLine(i) == [t |-> "rec", rec |-> Rec(i)]
BlankLine == [t |-> "blank"]
BadLine == [t |-> "bad"]

Entry(ext, regular, readable, body) ==
    [ext |-> ext, regular |-> regular, readable |-> readable, body |-> body]

EntryPool ==
    { Entry(".json", TRUE, TRUE, [json |-> "list", items |-> <<Rec(1), Rec(2)>>]),
      Entry(".json", TRUE, TRUE, [json |-> "dict", item |-> Rec(3)]),
      Entry(".json", TRUE, TRUE, [json |-> "scalar"]),
      Entry(".json", TRUE, TRUE, [json |-> "corrupt"]),
      Entry(".json", TRUE, FALSE, [json |-> "list", items |-> <<Rec(4)>>]),
      Entry(".jsonl", TRUE, TRUE, [lines |-> <<RecLine(5), BlankLine, RecLine(6)>>]),
      Entry(".jsonl", TRUE, TRUE, [lines |-> <<RecLine(7), BadLine, RecLine(8)>>]),
      Entry(".csv", TRUE, TRUE, [lines |-> <<RecLine(9)>>]),
      Entry(".csv", TRUE, TRUE, [lines |-> <<RecLine(10), BadLine>>]),
      Entry(".txt", TRUE, TRUE, [lines |-> <<RecLine(11)>>]),
      Entry(".json", FALSE, TRUE, [json |-> "list", items |-> <<Rec(12)>>]) }

\* Directory listings: up to MaxFiles distinct entries in any order.
Listings ==
    UNION { { s \in [1..n -> EntryPool] : \A i, j \in 1..n : i /= j => s[i] /= s[j] }
            : n \in 0..MaxFiles }

PathOfFile(e) == [exists |-> TRUE, isdir |-> FALSE, entry |-> e]
PathOfDir(es) == [exists |-> TRUE, isdir |-> TRUE, entries |-> es]
Paths == {NoFile} \cup {PathOfFile(e) : e \in EntryPool}
                  \cup {PathOfDir(es) : es \in Listings}

\* A loader's outcome: whether it raised, and its local list 'data' at the
\* moment it returned or raised.
Loaded(data) == [raised |-> FALSE, data |-> data]
Failed(data) == [raised |-> TRUE, data |-> data]

\* load_json_file
LoadJsonFile(e) ==
    IF ~e.readable \/ e.body.json = "corrupt" THEN Failed(<<>>)
    ELSE IF e.body.json = "list" THEN Loaded(e.body.items)
    ELSE IF e.body.json = "dict" THEN Loaded(<<e.body.item>>)
    ELSE Loaded(<<>>)

\* The loop of load_jsonl_file and of load_csv_file over the lines from
\* line i on, with the records gathered so far.
RECURSIVE ReadLines(_, _, _)
ReadLines(lines, i, data) ==
    IF i > Len(lines) THEN Loaded(data)
    ELSE IF lines[i].t = "blank" THEN ReadLines(lines, i + 1, data)
    ELSE IF lines[i].t = "bad" THEN Failed(data)
    ELSE ReadLines(lines, i + 1, Append(data, lines[i].rec))

\* load_jsonl_file
LoadJsonlFile(e) ==
    IF ~e.readable THEN Failed(<<>>) ELSE ReadLines(e.body.lines, 1, <<>>)

\* load_csv_file
LoadCsvFile(e) ==
    IF ~e.readable THEN Failed(<<>>) ELSE ReadLines(e.body.lines, 1, <<>>)

Supported == {".json", ".jsonl", ".csv"}

\* The chain of endswith tests, for a supported extension.
LoadByExtension(e) ==
    IF e.ext = ".json" THEN LoadJsonFile(e)
    ELSE IF e.ext = ".jsonl" THEN LoadJsonlFile(e)
    ELSE LoadCsvFile(e)

\* "all_data.extend(load_x(file_path))" replaced by an extend that also
\* takes the records a failing loader had gathered
Extend_Partial(all_data, r) == all_data \o r.data

\* all_data.extend(load_x(file_path)): nothing is added when the loader raises
Extend(all_data, r) == IF r.raised THEN all_data ELSE all_data \o r.data

\* The loop over os.listdir(data_path) from entry i on.
RECURSIVE LoadDir(_, _, _)
LoadDir(entries, i, all_data) ==
    IF i > Len(entries) THEN all_data
    ELSE IF ~entries[i].regular THEN LoadDir(entries, i + 1, all_data)
    ELSE IF entries[i].ext \notin Supported THEN LoadDir(entries, i + 1, all_data)
    ELSE LoadDir(entries, i + 1, Extend(all_data, LoadByExtension(entries[i])))

\* load_training_data
LoadTrainingData(path) ==
    IF path.exists /\ ~path.isdir /\ path.entry.regular
    THEN IF path.entry.ext \in Supported
         THEN LET r == LoadByExtension(path.entry)
              IN  IF r.raised THEN [raised |-> TRUE]
                  ELSE [raised |-> FALSE, value |-> r.data]
         ELSE [raised |-> FALSE, value |-> <<>>]
    ELSE IF path.exists /\ path.isdir
    THEN [raised |-> FALSE, value |-> LoadDir(path.entries, 1, <<>>)]
    ELSE [raised |-> FALSE, value |-> <<>>]

\* A load_training_data call on the path.
LoadTrainingDataCall ==
    LET r == LoadTrainingData(disk)
    IN  /\ call' = [op |-> "load_training_data"]
        /\ raised' = r.raised
        /\ out' = [done |-> TRUE] @@ r
        /\ UNCHANGED <<agentVars, convVars, clfVars, persistVars, records, rng, first, playerVars>>

InitLoad ==
    /\ NoAgent
    /\ call = NoCall
    /\ raised = FALSE
    /\ disk \in Paths
    /\ records = <<>>
    /\ rng = 0
    /\ out = NoOut
    /\ first = NoOut
    /\ NoPlayer

NextLoad == LoadTrainingDataCall

SpecLoad == InitLoad /\ [][NextLoad]_vars

(***************************************************************************)
(* agent.py: create_agent.  Kind names are sequences of characters, so     *)
(* that str.lower acts on them.                                            *)
(***************************************************************************)
UpperLetters ==
    <<"A", "B", "C", "D", "E", "F", "G", "H", "I", "J", "K", "L", "M",
      "N", "O", "P", "Q", "R", "S", "T", "U", "V", "W", "X", "Y", "Z">>
LowerLetters ==
    <<"a", "b", "c", "d", "e", "f", "g", "h", "i", "j", "k", "l", "m",
      "n", "o", "p", "q", "r", "s", "t", "u", "v", "w", "x", "y", "z">>

\* str.lower on one character, and on a string
LowerChar(c) ==
    IF \E i \in 1..Len(UpperLetters) : UpperLetters[i] = c
    THEN LowerLetters[CHOOSE i \in 1..Len(UpperLetters) : UpperLetters[i] = c]
    ELSE c
Lower(s) == [i \in 1..Len(s) |-> LowerChar(s[i])]

KeyConversational ==
    <<"c", "o", "n", "v", "e", "r", "s", "a", "t", "i", "o", "n", "a", "l">>
KeyClassifier == <<"c", "l", "a", "s", "s", "i", "f", "i", "e", "r">>
KeyCustom == <<"c", "u", "s", "t", "o", "m">>

\* The dictionary 'agents' of create_agent: the class for each key.
agents ==
    (KeyConversational :> "conversational") @@ (KeyClassifier :> "classifier")
      @@ (KeyCustom :> "custom")

\* The kind names passed to create_agent.
AgentTypes ==
    { KeyConversational, KeyClassifier, KeyCustom,
      <<"C", "o", "n", "v", "e", "r", "s", "a", "t", "i", "o", "n", "a", "l">>,
      <<"C", "L", "A", "S", "S", "I", "F", "I", "E", "R">>,
      <<"c", "u", "S", "t", "o", "m">>,
      <<"C", "O", "N", "V", "E", "R", "S", "A", "T", "I", "O", "N", "A", "L">>,
      <<"c", "o", "n", "v">>,
      <<"i", "n", "v", "a", "l", "i", "d", "_", "t", "y", "p", "e">>,
      <<"c", "u", "s", "t", "o", "m", " ">>,
      <<>> }

\* The files a config path of create_agent may point to.
FactoryFiles ==
    ConfigFiles \cup {FileOf("model" :> [provider |-> p]) : p \in {"anthropic", "cohere"}}

\* create_agent: the lookup, and the constructor of the class found.  When
\* the provider's constructor raises, its error leaves create_agent.
CreateAgent(agent_type, file, e, ctorRaises) ==
    /\ kind = "none"
    /\ phase = "new"
    /\ call' = [op |-> "create_agent", agent_type |-> agent_type, config_path |-> file]
    /\ LET key == Lower(agent_type)
           agent_class == IF key \in DOMAIN agents THEN agents[key] ELSE "<None>"
       IN  IF key \notin DOMAIN agents
           THEN /\ raised' = TRUE
                /\ out' = [done |-> TRUE, error |-> "ValueError"]
                /\ UNCHANGED <<agentVars, convVars, clfVars, name, version>>
           ELSE LET cfg == LoadConfig(file)
                    conv == agent_class = "conversational"
                    p == Get(Get(cfg, "model", EmptyDict), "provider", "openai")
                    ic == IF conv THEN InitClient(p, e, ctorRaises)
                          ELSE [raise |-> FALSE, client |-> client]
                IN  /\ kind' = agent_class
                    /\ config' = cfg
                    /\ name' = AgentName(cfg)
                    /\ version' = AgentVersion(cfg)
                    /\ history' = <<>>
                    /\ env' = IF conv THEN e ELSE env
                    /\ provider' = IF conv THEN p ELSE provider
                    /\ client' = ic.client
                    /\ model' = IF agent_class = "classifier" THEN Absent ELSE model
                    /\ vectorizer' = IF agent_class = "classifier" THEN Absent ELSE vectorizer
                    /\ classes' = IF agent_class = "classifier" THEN Absent ELSE classes
                    /\ phase' = IF ic.raise THEN "failed" ELSE "ready"
                    /\ raised' = ic.raise
                    /\ out' = [done |-> TRUE,
                               error |-> IF ic.raise THEN "ProviderError" ELSE "none"]
                    /\ UNCHANGED <<now, result, histRet, messages, backendCalled,
                                   hadError, trainCalls, trainedOk>>
    /\ UNCHANGED <<disk, records, rng, first, playerVars>>

InitFactory ==
    /\ NoAgent
    /\ call = NoCall
    /\ raised = FALSE
    /\ NothingElse

NextFactory ==
    \E t \in AgentTypes, f \in FactoryFiles, e \in Envs, r \in BOOLEAN :
        CreateAgent(t, f, e, r)

SpecFactory == InitFactory /\ [][NextFactory]_vars

(***************************************************************************)
(* inference.py: main, the part that creates the agent and overlays the    *)
(* saved state; and BaseAgent.load called on ConversationalAgent.          *)
(***************************************************************************)
\* What <model>/agent.json may hold.
InferenceSnapshots ==
    { SaveData(<<"Bot">>, <<"2.0">>, "model" :> [provider |-> "anthropic"], 1),
      SaveData(DefaultName, DefaultVersion, EmptyDict, 1),
      [name |-> <<"Old">>] }

\* main, lines 196-203: the overlay of the snapshot on the agent that
\* create_agent returned, when the snapshot file exists.
OverlaySnapshot ==
    /\ phase = "ready"
    /\ call.op = "create_agent"
    /\ call' = [op |-> "overlay"]
    /\ raised' = FALSE
    /\ IF disk.exists
       THEN /\ config' = Get(disk.doc, "config", config)
            /\ name' = Get(disk.doc, "name", name)
       ELSE UNCHANGED <<config, name>>
    /\ UNCHANGED <<agentVars, env, provider, client, messages, backendCalled,
                   hadError, clfVars, version, disk, dataVars, playerVars>>

\* ConversationalAgent.load(path, config_path): open raises when there is no
\* snapshot; otherwise the constructor runs on config_path and the snapshot
\* is laid over the instance.
ConvLoad(file, e, ctorRaises) ==
    /\ kind = "none"
    /\ phase = "new"
    /\ call' = [op |-> "load", config_path |-> file]
    /\ IF ~disk.exists
       THEN /\ raised' = TRUE
            /\ UNCHANGED <<agentVars, convVars, name, version>>
       ELSE LET save_data == disk.doc
                saved_config == Get(save_data, "config", EmptyDict)
                base == LoadConfig(file)
                p == Get(Get(base, "model", EmptyDict), "provider", "openai")
                ic == InitClient(p, e, ctorRaises)
            IN  /\ kind' = "conversational"
                /\ env' = e
                /\ provider' = p
                /\ client' = ic.client
                /\ raised' = ic.raise
                /\ phase' = IF ic.raise THEN "failed" ELSE "ready"
                /\ config' = IF ic.raise THEN base ELSE LoadedConfig(saved_config, base)
                /\ name' = IF ic.raise THEN AgentName(base)
                           ELSE Get(save_data, "name", AgentName(base))
                /\ version' = IF ic.raise THEN AgentVersion(base)
                              ELSE Get(save_data, "version", AgentVersion(base))
                /\ history' = <<>>
                /\ UNCHANGED <<now, result, histRet, messages, backendCalled, hadError>>
    /\ UNCHANGED <<clfVars, disk, dataVars, playerVars>>

InitInference ==
    /\ NoAgent
    /\ call = NoCall
    /\ raised = FALSE
    /\ disk \in {NoFile} \cup {FileOf(d) : d \in InferenceSnapshots}
    /\ records = <<>>
    /\ rng = 0
    /\ out = NoOut
    /\ first = NoOut
    /\ NoPlayer

NextInference ==
    \/ \E t \in AgentTypes, f \in FactoryFiles, e \in Envs, r \in BOOLEAN :
           CreateAgent(t, f, e, r)
    \/ OverlaySnapshot
    \/ \E f \in FactoryFiles, e \in Envs, r \in BOOLEAN : ConvLoad(f, e, r)

SpecInference == InitInference /\ [][NextInference]_vars

(***************************************************************************)
(* train.py: evaluate_agent, save_training_results and the part of main    *)
(* that follows training.  The agent is a CustomAgent; texts and expected  *)
(* answers are sequences of characters, so that lower() and the substring  *)
(* test act on them.  The test records are held in records.                *)
(***************************************************************************)
MaxTests == 3

TestPool ==
    { [text |-> <<"h", "i">>, label |-> <<"H", "I">>],
      [text |-> <<"h", "i">>, label |-> <<"n", "o">>],
      [user |-> <<"y", "o">>, assistant |-> <<"e", "c", "h", "o">>],
      [text |-> <<"h", "i">>] }

\* What load_training_data(args.test_data) returns.
TestLists == UNION {[1..n -> TestPool] : n \in 0..MaxTests}

\* sub in s, for strings
Contains(sub, s) ==
    \E k \in 0..(Len(s) - Len(sub)) : SubSeq(s, k + 1, k + Len(sub)) = sub

\* The response of CustomAgent.process at clock t.
EchoResponse(t, input_text) ==
    <<"[", ToString(t), "]", " ", "E", "c", "h", "o", ":", " ">>
        \o (IF input_text = None THEN <<"N", "o", "n", "e">> ELSE input_text)

\* "expected and expected.lower() in response.lower()"
IsCorrect(expected, response) ==
    Truthy(expected) /\ Contains(Lower(expected), Lower(response))

\* The loop of evaluate_agent from item i on: the history and the clock of
\* the agent and the count of correct answers.
RECURSIVE EvaluateLoop(_, _, _, _, _)
EvaluateLoop(test_data, i, h, t, correct) ==
    IF i > Len(test_data) THEN [history |-> h, now |-> t, correct |-> correct]
    ELSE LET item == test_data[i]
             input_text == PyOr(ItemGet(item, "text"), ItemGet(item, "user"))
             expected == PyOr(ItemGet(item, "label"), ItemGet(item, "assistant"))
             response == EchoResponse(t, input_text)
         IN  EvaluateLoop(test_data, i + 1,
                          AddToHistory(h, t, input_text, response), t + 1,
                          IF IsCorrect(expected, response) THEN correct + 1 ELSE correct)

\* correct / total, as an exact fraction
Fraction(n, d) == [num |-> n, den |-> d]

\* accuracy = correct / total if total > 0 else 0
Accuracy(correct, total) ==
    IF total > 0 THEN Fraction(correct, total) ELSE Fraction(0, 1)

\* evaluate_agent: the metrics and the agent's history and clock afterwards.
EvaluateAgent(test_data, h, t) ==
    LET r == EvaluateLoop(test_data, 1, h, t, 0)
        total == Len(test_data)
    IN  [history |-> r.history, now |-> r.now,
         metrics |-> [accuracy |-> Accuracy(r.correct, total),
                      total_samples |-> total,
                      correct_predictions |-> r.correct]]

\* main from "metrics = {}" on: the optional evaluation, then
\* save_training_results, which saves the agent and dumps metrics.
TrainMainTail(no_eval, has_test_data) ==
    /\ kind = "custom"
    /\ phase = "ready"
    /\ call.op /= "train_main"
    /\ LET test_data == IF ~no_eval /\ has_test_data THEN records ELSE <<>>
           evaluated == test_data /= <<>>
           ev == EvaluateAgent(test_data, history, now)
           metrics == IF evaluated THEN ev.metrics ELSE EmptyDict
       IN  /\ history' = IF evaluated THEN ev.history ELSE history
           /\ now' = IF evaluated THEN ev.now ELSE now
           /\ out' = [done |-> TRUE, evaluated |-> evaluated, metrics |-> metrics]
           /\ disk' = [exists |-> TRUE,
                       doc |-> SaveData(name, version, config, now'),
                       saver |-> [name |-> name, version |-> version,
                                  config |-> config, entries |-> Len(history')]]
    /\ call' = [op |-> "train_main", no_eval |-> no_eval,
                has_test_data |-> has_test_data]
    /\ raised' = FALSE
    /\ UNCHANGED <<kind, phase, result, histRet, convVars, clfVars, name, version,
                   records, rng, first, playerVars>>

\* The agent has been created from a missing config file and trained; the
\* test path holds some list of records.
InitTrain ==
    /\ kind = "custom"
    /\ phase = "ready"
    /\ env = [lib |-> TRUE, key |-> TRUE]
    /\ config = EmptyDict
    /\ provider = "openai"
    /\ client = Absent
    /\ history = <<>>
    /\ now = 0
    /\ call = [op |-> "train"]
    /\ raised = FALSE
    /\ result = <<>>
    /\ histRet = <<>>
    /\ messages = <<>>
    /\ backendCalled = FALSE
    /\ hadError = FALSE
    /\ model = Absent
    /\ vectorizer = Absent
    /\ classes = Absent
    /\ trainCalls = 0
    /\ trainedOk = FALSE
    /\ name = AgentName(EmptyDict)
    /\ version = AgentVersion(EmptyDict)
    /\ disk = NoFile
    /\ records \in TestLists
    /\ rng = 0
    /\ out = NoOut
    /\ first = NoOut
    /\ NoPlayer

NextTrain == \E ne \in BOOLEAN, ht \in BOOLEAN : TrainMainTail(ne, ht)

SpecTrain == InitTrain /\ [][NextTrain]_vars

(***************************************************************************)
(* utils.py: truncate_text.  Texts are sequences of characters.            *)
(***************************************************************************)
MaxTextLen == 4

Alphabet == <<"a", "b", "c", "d", "e", "f", "g", "h">>

\* The texts passed to truncate_text: the prefixes of the alphabet.
Texts == {SubSeq(Alphabet, 1, n) : n \in 0..MaxTextLen}
Suffixes == {<<>>, <<".">>, <<"~", "!">>, <<".", ".", ".">>}
MaxLengths == 0..(MaxTextLen + 1)

\* truncate_text
TruncateText(text, max_length, suffix) ==
    IF Len(text) <= max_length THEN text
    ELSE PySlice(text, 0, max_length - Len(suffix)) \o suffix

\* A truncate_text call.
TruncateCall(text, max_length, suffix) ==
    /\ call' = [op |-> "truncate_text", text |-> text, max_length |-> max_length,
                suffix |-> suffix]
    /\ raised' = FALSE
    /\ out' = [done |-> TRUE, value |-> TruncateText(text, max_length, suffix)]
    /\ UNCHANGED <<agentVars, convVars, clfVars, persistVars, records, rng, first, playerVars>>

InitTruncate ==
    /\ NoAgent
    /\ call = NoCall
    /\ raised = FALSE
    /\ NothingElse

NextTruncate ==
    \E t \in Texts, m \in MaxLengths, s \in Suffixes : TruncateCall(t, m, s)

SpecTruncate == InitTruncate /\ [][NextTruncate]_vars

(***************************************************************************)
(* utils.py: retry_on_error.  The wrapped function is given by what each   *)
(* of its invocations does: the i-th returns the value i or raises the     *)
(* exception i.  A call of the wrapper yields the sequence of invocations  *)
(* and sleeps it made and how it ended.                                    *)
(***************************************************************************)
MaxRetries == 4

\* For each invocation, whether it succeeds.
OutcomeSeqs == [1..MaxRetries -> BOOLEAN]
RetryCounts == 0..MaxRetries
Delays == {0, 1}

CallEvent(i) == [ev |-> "call", index |-> i]
SleepEvent(d) == [ev |-> "sleep", secs |-> d]

\* The for loop of wrapper from the given attempt on; last_exception is 0
\* for None.
RECURSIVE RetryLoop(_, _, _, _, _, _)
RetryLoop(max_retries, delay, outcomes, attempt, last_exception, trace) ==
    IF attempt >= max_retries
    THEN IF last_exception /= 0
         THEN [how |-> "raised", index |-> last_exception, trace |-> trace]
         ELSE [how |-> "returned None", index |-> 0, trace |-> trace]
    ELSE LET i == attempt + 1
             called == Append(trace, CallEvent(i))
         IN  IF outcomes[i]
             THEN [how |-> "returned", index |-> i, trace |-> called]
             ELSE IF attempt = max_retries - 1
             THEN [how |-> "raised", index |-> i, trace |-> called]
             ELSE RetryLoop(max_retries, delay, outcomes, attempt + 1, i,
                            Append(called, SleepEvent(delay)))

\* wrapper
Wrapper(max_retries, delay, outcomes) ==
    RetryLoop(max_retries, delay, outcomes, 0, 0, <<>>)

\* A call of a function decorated with retry_on_error(max_retries, delay).
RetryCall(max_retries, delay, outcomes) ==
    LET r == Wrapper(max_retries, delay, outcomes)
    IN  /\ call' = [op |-> "retry", max_retries |-> max_retries, delay |-> delay,
                    outcomes |-> outcomes]
        /\ raised' = (r.how = "raised")
        /\ out' = [done |-> TRUE] @@ r
        /\ UNCHANGED <<agentVars, convVars, clfVars, persistVars, records, rng, first, playerVars>>

InitRetry ==
    /\ NoAgent
    /\ call = NoCall
    /\ raised = FALSE
    /\ NothingElse

NextRetry ==
    \E m \in RetryCounts, d \in Delays, o \in OutcomeSeqs : RetryCall(m, d, o)

SpecRetry == InitRetry /\ [][NextRetry]_vars

(***************************************************************************)
(* inference.py: interactive_mode.  Standard input is a finite sequence of *)
(* events, a line or an interrupt, held in records; once it is used up,    *)
(* input() raises EOFError.  One step of the model is one pass of the      *)
(* while loop; out.done tells that interactive_mode has returned.  The     *)
(* agent's process either returns the echo response or raises.             *)
(***************************************************************************)
MaxStream == 3

Line(text) == [t |-> "line", text |-> text]
Interrupt == [t |-> "interrupt"]

StreamPool ==
    { Line(<<"h", "i">>),
      Line(<<>>),
      Line(<<" ", "S", "a", "l", "i", "r">>),
      Line(<<"E", "X", "I", "T">>),
      Line(<<"q", "u", "i", "t">>),
      Line(<<"h", "i", "s", "t", "o", "r", "i", "a", "l">>),
      Line(<<"L", "i", "m", "p", "i", "a", "r", " ">>),
      Interrupt }
Streams == UNION {[1..n -> StreamPool] : n \in 0..MaxStream}

\* str.strip, for blanks
RECURSIVE LStrip(_)
LStrip(s) == IF s /= <<>> /\ Head(s) = " " THEN LStrip(Tail(s)) ELSE s
RECURSIVE RStrip(_)
RStrip(s) ==
    IF s /= <<>> /\ s[Len(s)] = " " THEN RStrip(SubSeq(s, 1, Len(s) - 1)) ELSE s
Strip(s) == RStrip(LStrip(s))

ExitCommands ==
    { <<"s", "a", "l", "i", "r">>, <<"e", "x", "i", "t">>, <<"q", "u", "i", "t">> }
HistoryCommand == <<"h", "i", "s", "t", "o", "r", "i", "a", "l">>
ClearCommand == <<"l", "i", "m", "p", "i", "a", "r">>

\* One pass of the while loop.  processRaises chooses what agent.process
\* does if the pass reaches it.
InteractiveStep(processRaises) ==
    /\ kind = "custom"
    /\ phase = "ready"
    /\ ~out.done
    /\ IF records = <<>>
       THEN \* input() raises EOFError, which "except Exception" catches
            /\ call' = [op |-> "input", handled |-> "eof error"]
            /\ UNCHANGED <<records, out, history, now, histRet, result>>
       ELSE /\ records' = Tail(records)
            /\ IF Head(records).t = "interrupt"
               THEN /\ call' = [op |-> "input", handled |-> "interrupt"]
                    /\ out' = [done |-> TRUE]
                    /\ UNCHANGED <<history, now, histRet, result>>
               ELSE LET user_input == Strip(Head(records).text)
                    IN  IF user_input = <<>>
                        THEN /\ call' = [op |-> "input", handled |-> "blank"]
                             /\ UNCHANGED <<out, history, now, histRet, result>>
                        ELSE IF Lower(user_input) \in ExitCommands
                        THEN /\ call' = [op |-> "input", handled |-> "exit"]
                             /\ out' = [done |-> TRUE]
                             /\ UNCHANGED <<history, now, histRet, result>>
                        ELSE IF Lower(user_input) = HistoryCommand
                        THEN /\ call' = [op |-> "input", handled |-> "historial"]
                             /\ histRet' = GetHistory(history, NoLimit)
                             /\ UNCHANGED <<out, history, now, result>>
                        ELSE IF Lower(user_input) = ClearCommand
                        THEN /\ call' = [op |-> "input", handled |-> "limpiar"]
                             /\ history' = <<>>
                             /\ UNCHANGED <<out, now, histRet, result>>
                        ELSE IF processRaises
                        THEN /\ call' = [op |-> "input", handled |-> "process raised"]
                             /\ UNCHANGED <<out, history, now, histRet, result>>
                        ELSE LET response == EchoResponse(now, user_input)
                             IN  /\ call' = [op |-> "input", handled |-> "process"]
                                 /\ history' = AddToHistory(history, now, user_input, response)
                                 /\ result' = response
                                 /\ now' = now + 1
                                 /\ UNCHANGED <<out, histRet>>
    /\ raised' = FALSE
    /\ UNCHANGED <<kind, phase, convVars, clfVars, persistVars, rng, first, playerVars>>

\* interactive_mode has been entered with a CustomAgent built from a
\* missing config file; standard input holds some finite stream.
InitInteractive ==
    /\ kind = "custom"
    /\ phase = "ready"
    /\ env = [lib |-> TRUE, key |-> TRUE]
    /\ config = EmptyDict
    /\ provider = "openai"
    /\ client = Absent
    /\ history = <<>>
    /\ now = 0
    /\ call = [op |-> "interactive_mode"]
    /\ raised = FALSE
    /\ result = <<>>
    /\ histRet = <<>>
    /\ messages = <<>>
    /\ backendCalled = FALSE
    /\ hadError = FALSE
    /\ model = Absent
    /\ vectorizer = Absent
    /\ classes = Absent
    /\ trainCalls = 0
    /\ trainedOk = FALSE
    /\ name = AgentName(EmptyDict)
    /\ version = AgentVersion(EmptyDict)
    /\ disk = NoFile
    /\ records \in Streams
    /\ rng = 0
    /\ out = NoOut
    /\ first = NoOut
    /\ NoPlayer

NextInteractive == \E r \in BOOLEAN : InteractiveStep(r)

SpecInteractive == InitInteractive /\ [][NextInteractive]_vars

(***************************************************************************)
(* reproductor_musica.py: ReproductorMusica.  Indices count from 0 as in   *)
(* the code; the listbox lista_canciones holds one item per song of        *)
(* lista_reproduccion, in the same order, and seleccion is its selected    *)
(* index.  sonando is the song the mixer last started.                     *)
(***************************************************************************)
MaxSongs == 3

SongNames == <<"a.mp3", "b.mp3", "c.wav", "d.ogg", "e.mp3">>
Songs == {SongNames[i] : i \in 1..MaxSongs}

\* What the file dialog returns: up to two files, possibly the same twice.
Archivos == UNION {[1..n -> Songs] : n \in 0..2}

\* lista[indice], for an index counted from 0
At(lista, indice) == lista[indice + 1]

\* del lista[indice]
DelAt(lista, indice) ==
    SubSeq(lista, 1, indice) \o SubSeq(lista, indice + 2, Len(lista))

InList(x, lista) == \E i \in 1..Len(lista) : lista[i] = x

\* The loop of agregar_canciones from file i on.
RECURSIVE AgregarLoop(_, _, _)
AgregarLoop(archivos, i, lista) ==
    IF i > Len(archivos) THEN lista
    ELSE AgregarLoop(archivos, i + 1,
                     IF InList(archivos[i], lista) THEN lista
                     ELSE Append(lista, archivos[i]))

\* agregar_canciones
AgregarCanciones(archivos) ==
    /\ kind = "player"
    /\ lista_reproduccion' = AgregarLoop(archivos, 1, lista_reproduccion)
    /\ call' = [op |-> "agregar_canciones", archivos |-> archivos]
    /\ UNCHANGED <<cancion_actual, esta_reproduciendo, esta_pausado, seleccion, sonando>>

\* The user clicks on an item of the listbox.
Seleccionar(indice) ==
    /\ kind = "player"
    /\ indice < Len(lista_reproduccion)
    /\ seleccion' = indice
    /\ call' = [op |-> "seleccionar", indice |-> indice]
    /\ UNCHANGED <<lista_reproduccion, cancion_actual, esta_reproduciendo,
                   esta_pausado, sonando>>

\* eliminar_cancion without the adjustment for a song removed before the
\* current one
CancionTrasEliminar_SinAjuste(indice, actual) ==
    IF indice = actual THEN 0 - 1 ELSE actual

\* eliminar_cancion: cancion_actual after the song at indice was removed
CancionTrasEliminar(indice, actual) ==
    IF indice = actual THEN 0 - 1
    ELSE IF indice < actual THEN actual - 1
    ELSE actual

\* eliminar_cancion (with detener when the current song is the one removed)
EliminarCancion ==
    /\ kind = "player"
    /\ call' = [op |-> "eliminar_cancion", indice |-> seleccion]
    /\ IF seleccion >= 0
       THEN /\ lista_reproduccion' = DelAt(lista_reproduccion, seleccion)
            /\ seleccion' = 0 - 1
            /\ cancion_actual' = CancionTrasEliminar(seleccion, cancion_actual)
            /\ IF seleccion = cancion_actual
               THEN esta_reproduciendo' = FALSE /\ esta_pausado' = FALSE
               ELSE UNCHANGED <<esta_reproduciendo, esta_pausado>>
            /\ UNCHANGED sonando
       ELSE UNCHANGED playerVars

\* limpiar_lista; confirma is the answer to the confirmation dialog
LimpiarLista(confirma) ==
    /\ kind = "player"
    /\ call' = [op |-> "limpiar_lista", confirma |-> confirma]
    /\ IF lista_reproduccion /= <<>> /\ confirma
       THEN /\ esta_reproduciendo' = FALSE
            /\ esta_pausado' = FALSE
            /\ lista_reproduccion' = <<>>
            /\ seleccion' = 0 - 1
            /\ cancion_actual' = 0 - 1
            /\ UNCHANGED sonando
       ELSE UNCHANGED playerVars

\* _reproducir_indice: the fields after the call; carga tells whether the
\* mixer loads and plays the file (otherwise pygame.error is raised and
\* caught).
ReproducirIndice(indice, carga) ==
    IF 0 <= indice /\ indice < Len(lista_reproduccion) /\ carga
    THEN /\ sonando' = At(lista_reproduccion, indice)
         /\ cancion_actual' = indice
         /\ esta_reproduciendo' = TRUE
         /\ esta_pausado' = FALSE
         /\ seleccion' = indice
         /\ UNCHANGED lista_reproduccion
    ELSE UNCHANGED playerVars

\* reproducir
Reproducir(carga) ==
    /\ kind = "player"
    /\ call' = [op |-> "reproducir", carga |-> carga]
    /\ IF esta_pausado
       THEN /\ esta_pausado' = FALSE
            /\ esta_reproduciendo' = TRUE
            /\ UNCHANGED <<lista_reproduccion, cancion_actual, seleccion, sonando>>
       ELSE IF seleccion >= 0 THEN ReproducirIndice(seleccion, carga)
       ELSE IF lista_reproduccion /= <<>> /\ cancion_actual = 0 - 1
       THEN IF carga THEN ReproducirIndice(0, carga)
            ELSE /\ seleccion' = 0
                 /\ UNCHANGED <<lista_reproduccion, cancion_actual,
                                esta_reproduciendo, esta_pausado, sonando>>
       ELSE UNCHANGED playerVars

\* pausar
Pausar ==
    /\ kind = "player"
    /\ call' = [op |-> "pausar"]
    /\ IF esta_reproduciendo /\ ~esta_pausado
       THEN esta_pausado' = TRUE /\ esta_reproduciendo' = FALSE
       ELSE IF esta_pausado
       THEN esta_pausado' = FALSE /\ esta_reproduciendo' = TRUE
       ELSE UNCHANGED <<esta_pausado, esta_reproduciendo>>
    /\ UNCHANGED <<lista_reproduccion, cancion_actual, seleccion, sonando>>

\* detener
Detener ==
    /\ kind = "player"
    /\ call' = [op |-> "detener"]
    /\ esta_reproduciendo' = FALSE
    /\ esta_pausado' = FALSE
    /\ UNCHANGED <<lista_reproduccion, cancion_actual, seleccion, sonando>>

\* siguiente
Siguiente(carga) ==
    /\ kind = "player"
    /\ call' = [op |-> "siguiente", carga |-> carga]
    /\ IF lista_reproduccion /= <<>>
       THEN ReproducirIndice((cancion_actual + 1) % Len(lista_reproduccion), carga)
       ELSE UNCHANGED playerVars

\* anterior
Anterior(carga) ==
    /\ kind = "player"
    /\ call' = [op |-> "anterior", carga |-> carga]
    /\ IF lista_reproduccion /= <<>>
       THEN ReproducirIndice((cancion_actual - 1) % Len(lista_reproduccion), carga)
       ELSE UNCHANGED playerVars

\* ReproductorMusica.__init__
InitPlayer ==
    /\ kind = "player"
    /\ phase = "new"
    /\ env = [lib |-> TRUE, key |-> TRUE]
    /\ config = EmptyDict
    /\ provider = "openai"
    /\ client = Absent
    /\ history = <<>>
    /\ now = 0
    /\ call = NoCall
    /\ raised = FALSE
    /\ result = <<>>
    /\ histRet = <<>>
    /\ messages = <<>>
    /\ backendCalled = FALSE
    /\ hadError = FALSE
    /\ model = Absent
    /\ vectorizer = Absent
    /\ classes = Absent
    /\ trainCalls = 0
    /\ trainedOk = FALSE
    /\ name = None
    /\ version = None
    /\ NothingElse

NextPlayer ==
    /\ \/ \E a \in Archivos : AgregarCanciones(a)
       \/ \E i \in 0..(MaxSongs - 1) : Seleccionar(i)
       \/ EliminarCancion
       \/ \E c \in BOOLEAN : LimpiarLista(c)
       \/ \E c \in BOOLEAN : Reproducir(c)
       \/ Pausar
       \/ Detener
       \/ \E c \in BOOLEAN : Siguiente(c)
       \/ \E c \in BOOLEAN : Anterior(c)
    /\ raised' = FALSE
    /\ UNCHANGED <<kind, phase, history, now, result, histRet, convVars, clfVars,
                   persistVars, dataVars>>

SpecPlayer == InitPlayer /\ [][NextPlayer]_vars

(***************************************************************************)
(* Properties of ConversationalAgent, checked under SpecConv.              *)
(***************************************************************************)
\* The step is a process call on an agent whose client is configured.
ProcessWithClient == call'.op = "process" /\ kind = "conversational" /\ client.present

\* C1: when process is called on an agent with a configured client and the
\* backend returns an answer, exactly one interaction holding that input as
\* 'user' and that answer as 'agent' is appended at the end of history, the
\* earlier entries are unchanged, and the answer is returned.
C1_SuccessAppendsOneInteraction ==
    [][ (ProcessWithClient /\ call'.outcome.ok) =>
          /\ ~raised'
          /\ result' = call'.outcome.answer
          /\ Len(history') = Len(history) + 1
          /\ SubSeq(history', 1, Len(history)) = history
          /\ history'[Len(history')].user = call'.input
          /\ history'[Len(history')].agent = call'.outcome.answer ]_vars

\* A second successful call has returned: history holds an earlier entry and
\* the new one.
C1_Witness ==
    /\ call.op = "process"
    /\ client.present
    /\ call.outcome.ok
    /\ Len(history) >= 2
    /\ history[Len(history)].user = call.input
    /\ history[1].user /= call.input
    /\ result = call.outcome.answer

\* C2: when the backend call fails during process, nothing is raised to the
\* caller, process returns the user-facing error string, history is exactly
\* what it was before the call, and the agent is left as it was (ready, with
\* the same client, provider and config) for the next call.
C2_BackendFailureIsContained ==
    [][ (ProcessWithClient /\ ~call'.outcome.ok) =>
          /\ ~raised'
          /\ result' = <<"Lo siento, ocurrió un error: ">> \o call'.outcome.error
          /\ history' = history
          /\ phase' = "ready"
          /\ client' = client
          /\ provider' = provider
          /\ config' = config ]_vars

\* A call has succeeded on an agent after an earlier backend failure, with an
\* interaction from before that still in history.
C2_Witness ==
    /\ call.op = "process"
    /\ client.present
    /\ hadError
    /\ call.outcome.ok
    /\ Len(history) >= 2
    /\ result = call.outcome.answer

\* The constructor was given no credentials or an unsupported provider.
Degraded == ~env.key \/ provider \notin {"openai", "anthropic"}

\* C3: constructing a ConversationalAgent with missing credentials or with an
\* unsupported provider does not fail and leaves the client absent, and every
\* later process call returns the not-configured message without raising,
\* without calling a backend and without changing history.
C3_DegradedConstructionDisablesBackend ==
    (kind = "conversational" /\ phase /= "new" /\ Degraded) =>
        /\ phase = "ready"
        /\ ~client.present
        /\ history = <<>>
        /\ call.op = "process" =>
              (result = NotConfiguredMsg /\ ~raised /\ ~backendCalled)

\* The history entries a memory window of k holds: the last k, oldest first.
LastEntries(h, k) ==
    IF k >= Len(h) THEN h ELSE [i \in 1..k |-> h[Len(h) - k + i]]

ConfiguredMaxMessages(cfg) == Get(Get(cfg, "memory", EmptyDict), "max_messages", 5)
ConfiguredSystemPrompt(cfg) == Get(Get(cfg, "prompts", EmptyDict), "system_prompt", <<>>)
ConfiguredExamples(cfg) == Get(Get(cfg, "prompts", EmptyDict), "few_shot_examples", <<>>)

\* The number of messages before the history part of a message list.
PrefixLen(cfg) ==
    (IF ConfiguredSystemPrompt(cfg) /= <<>> THEN 1 ELSE 0)
    + 2 * Len(ConfiguredExamples(cfg))

\* The messages that follow the few-shot examples and precede the context
\* and the current input.
HistoryPart(msgs, cfg, context) ==
    SubSeq(msgs, PrefixLen(cfg) + 1,
           Len(msgs) - 1 - (IF Truthy(context) THEN 1 ELSE 0))

\* One user then one assistant message per entry of w, in the order of w.
IsPairsOf(part, w) ==
    /\ Len(part) = 2 * Len(w)
    /\ \A i \in 1..Len(w) :
          /\ part[2 * i - 1] = [role |-> "user", content |-> w[i].user]
          /\ part[2 * i] = [role |-> "assistant", content |-> w[i].agent]

\* C8: for every configured max_messages = k and every history longer than
\* k, the assembled message list holds at most k prior interaction pairs, and
\* they are the k most recent history entries, oldest first.
C8_MemoryWindowIsLastK ==
    [][ (ProcessWithClient /\ Len(history) > ConfiguredMaxMessages(config)) =>
          LET k == ConfiguredMaxMessages(config)
              part == HistoryPart(messages', config, call'.context)
          IN  /\ Len(part) <= 2 * k
              /\ IsPairsOf(part, LastEntries(history, k)) ]_vars

\* C9: the assembled message list is, in this order: the system prompt (when
\* configured and non-empty), a user and an assistant message per few-shot
\* example, a user and an assistant message per history entry of the memory
\* window, a system message carrying the context (when one is supplied), and
\* last the current input with role user; assembling changes neither history
\* nor config.
C9_MessageListOrder ==
    [][ ProcessWithClient =>
          LET sp == ConfiguredSystemPrompt(config)
              ex == ConfiguredExamples(config)
              s == IF sp /= <<>> THEN 1 ELSE 0
              f == Len(ex)
              w == LastEntries(history, ConfiguredMaxMessages(config))
              c == IF Truthy(call'.context) THEN 1 ELSE 0
              msgs == messages'
          IN  /\ Len(msgs) = s + 2 * f + 2 * Len(w) + c + 1
              /\ s = 1 => msgs[1] = [role |-> "system", content |-> sp]
              /\ IsPairsOf(SubSeq(msgs, s + 1, s + 2 * f),
                           [i \in 1..f |-> [user |-> ex[i].user,
                                            agent |-> ex[i].assistant]])
              /\ IsPairsOf(SubSeq(msgs, s + 2 * f + 1, s + 2 * f + 2 * Len(w)), w)
              /\ c = 1 => msgs[Len(msgs) - 1] =
                            [role |-> "system",
                             content |-> <<"Contexto: ">> \o call'.context]
              /\ msgs[Len(msgs)] = [role |-> "user", content |-> call'.input]
              /\ config' = config
              /\ SubSeq(history', 1, Len(history)) = history
      ]_vars

\* C10: get_history(limit=n) returns exactly the last n entries of history in
\* order, all of them when fewer than n exist or when no limit is given, and
\* never changes history.
C10_GetHistoryReturnsLastN ==
    [][ call'.op = "get_history" =>
          /\ histRet' = IF call'.limit.given
                        THEN LastEntries(history, call'.limit.n)
                        ELSE history
          /\ history' = history ]_vars

(***************************************************************************)
(* Properties of ClassifierAgent, checked under SpecClf.                   *)
(***************************************************************************)
\* C4: ClassifierAgent.process called before any train call returns the
\* not-trained sentinel, does not raise, and leaves history, model,
\* vectorizer and classes unchanged.
C4_ProcessBeforeTrainReturnsSentinel ==
    [][ (kind = "classifier" /\ trainCalls = 0 /\ call'.op = "process") =>
          /\ ~raised'
          /\ result' = <<"El modelo no está entrenado. Ejecuta train() primero.">>
          /\ history' = history
          /\ model' = model
          /\ vectorizer' = vectorizer
          /\ classes' = classes ]_vars

\* process has been called on a classifier no train call was made on.
C4_Witness ==
    /\ kind = "classifier"
    /\ trainCalls = 0
    /\ call.op = "process"
    /\ result = NotTrainedMsg
    /\ history = <<>>

\* C5: while no train call has succeeded, failed train calls included,
\* vectorizer, model and classes are all three absent.
C5_AbsentUntilTrainSucceeds ==
    (kind = "classifier" /\ ~trainedOk) =>
        (~vectorizer.present /\ ~model.present /\ ~classes.present)

\* C6: vectorizer, model and classes always come from the same train call
\* (or are all absent), and a train call either builds all three or leaves
\* all three as they were.
C6_TrainIsAllOrNothing ==
    [][ kind = "classifier" =>
          /\ \/ ~vectorizer'.present /\ ~model'.present /\ ~classes'.present
             \/ /\ vectorizer'.present /\ model'.present /\ classes'.present
                /\ vectorizer'.run = model'.run
                /\ classes'.run = model'.run
          /\ call'.op = "train" =>
                \/ /\ vectorizer' = vectorizer
                   /\ model' = model
                   /\ classes' = classes
                \/ /\ vectorizer'.present /\ model'.present /\ classes'.present
                   /\ vectorizer'.run = trainCalls'
                   /\ model'.run = trainCalls'
                   /\ classes'.run = trainCalls' ]_vars

\* C7: once a train call has succeeded, every process call returns a result
\* naming a label of classes with a confidence between 0% and 100%, and
\* appends exactly one interaction holding the input and that result.
C7_ProcessAfterTrainPredicts ==
    [][ (kind = "classifier" /\ trainedOk /\ call'.op = "process") =>
          /\ ~raised'
          /\ \E l \in classes.labels, pct \in 0..100 :
                result' = <<"Categoría: ", l, " (confianza: ", ToString(pct), ".00%)">>
          /\ Len(history') = Len(history) + 1
          /\ SubSeq(history', 1, Len(history)) = history
          /\ history'[Len(history')].user = call'.input
          /\ history'[Len(history')].agent = result' ]_vars

(***************************************************************************)
(* Generation parameters                                                   *)
(***************************************************************************)
BuiltinDefault(k) ==
    CASE k = "temperature" -> <<"0.7">>
      [] k = "max_tokens" -> <<"500">>
      [] k = "top_p" -> <<"0.9">>

\* The value configured under agent.parameters for k, when there is one.
HasConfigured(k) ==
    /\ "agent" \in DOMAIN config
    /\ "parameters" \in DOMAIN config.agent
    /\ k \in DOMAIN config.agent.parameters

\* C11: each of temperature, max_tokens and top_p resolves to the keyword
\* argument of the call when one is given, else to the value configured under
\* agent.parameters when present, else to the built-in default; the resolved
\* set has exactly these three keys whatever other keywords are passed.
C11_GenerationParamsPrecedence ==
    call.op = "_get_generation_params" =>
        /\ DOMAIN out.value = {"temperature", "max_tokens", "top_p"}
        /\ \A k \in {"temperature", "max_tokens", "top_p"} :
              out.value[k] =
                  IF k \in DOMAIN call.kwargs THEN call.kwargs[k]
                  ELSE IF HasConfigured(k) THEN config.agent.parameters[k]
                  ELSE BuiltinDefault(k)

\* A call where one parameter comes from each source and an unknown keyword
\* is passed too, both the keyword and the configuration naming temperature.
C11_Witness ==
    /\ call.op = "_get_generation_params"
    /\ DOMAIN call.kwargs = {"temperature", "stop"}
    /\ HasConfigured("temperature")
    /\ HasConfigured("max_tokens")
    /\ ~HasConfigured("top_p")
    /\ out.value = [temperature |-> <<"kw", "temperature">>,
                    max_tokens |-> <<"cfg", "max_tokens">>,
                    top_p |-> <<"0.9">>]

(***************************************************************************)
(* History, snapshots and loading: SpecAgents and SpecCustom.              *)
(***************************************************************************)
IsPrefixOf(a, b) == Len(a) <= Len(b) /\ SubSeq(b, 1, Len(a)) = a

\* C12: across process, train, save, add_to_history and get_history calls on
\* one agent the history before each call is a prefix of the history after
\* it (nothing removed, reordered or modified), a call adding at most one
\* interaction, at the end.
C12_HistoryOnlyGrows ==
    [][ call'.op \in {"process", "train", "save", "add_to_history", "get_history"} =>
            /\ IsPrefixOf(history, history')
            /\ Len(history') <= Len(history) + 1 ]_vars

\* After add_to_history, process, save and get_history in that order the
\* history holds the two interactions in call order.
C12_Witness ==
    /\ kind = "custom"
    /\ call.op = "get_history"
    /\ disk.exists
    /\ "saver" \in DOMAIN disk
    /\ disk.saver.entries = 2
    /\ Len(history) = 2
    /\ history[1].user = <<"q2">>
    /\ history[2].user = <<"q1">>
    /\ history[1].timestamp < history[2].timestamp

\* C13: save followed by load yields an agent with the name, the version
\* and the config of the agent that was saved, whatever config_path holds.
C13_SaveLoadRoundTrip ==
    [][ (call'.op = "load" /\ ~raised' /\ "saver" \in DOMAIN disk) =>
            /\ name' = disk.saver.name
            /\ version' = disk.saver.version
            /\ config' = disk.saver.config ]_vars

\* C14: load takes the snapshot's config whole when it is present and not
\* empty and keeps the configuration read from config_path otherwise; name
\* and version come from the snapshot when it holds them and from the
\* constructor otherwise.
C14_LoadOverlaysSnapshot ==
    [][ (call'.op = "load" /\ ~raised') =>
            LET snap == disk.doc
                fromPath == IF call'.config_path.exists
                            THEN call'.config_path.doc ELSE EmptyDict
                ctorName == IF "agent" \in DOMAIN fromPath
                               /\ "name" \in DOMAIN fromPath.agent
                            THEN fromPath.agent.name ELSE <<"Agent">>
                ctorVersion == IF "agent" \in DOMAIN fromPath
                                  /\ "version" \in DOMAIN fromPath.agent
                               THEN fromPath.agent.version ELSE <<"1.0.0">>
            IN  /\ config' = IF "config" \in DOMAIN snap /\ snap.config /= EmptyDict
                             THEN snap.config ELSE fromPath
                /\ name' = IF "name" \in DOMAIN snap THEN snap.name ELSE ctorName
                /\ version' = IF "version" \in DOMAIN snap THEN snap.version
                              ELSE ctorVersion ]_vars

\* A load whose snapshot holds a non-empty config while config_path holds
\* another non-empty configuration, none of whose keys is in the result.
C14_Witness ==
    /\ call.op = "load"
    /\ ~raised
    /\ "config" \in DOMAIN disk.doc
    /\ disk.doc.config /= EmptyDict
    /\ call.config_path.exists
    /\ DOMAIN call.config_path.doc \cap DOMAIN disk.doc.config = {}
    /\ config = disk.doc.config

\* C15: a snapshot written by save holds name, version, config and timestamp
\* and no history, and the agent load returns has empty history.
C15_SnapshotsCarryNoHistory ==
    [][ /\ (call'.op = "save" /\ ~raised') =>
                /\ "history" \notin DOMAIN disk'.doc
                /\ DOMAIN disk'.doc = {"name", "version", "config", "timestamp"}
        /\ (call'.op = "load" /\ ~raised') => history' = <<>> ]_vars

\* An agent loaded from the snapshot of an agent that had three interactions
\* when it was saved.
C15_Witness ==
    /\ call.op = "load"
    /\ ~raised
    /\ "saver" \in DOMAIN disk
    /\ disk.saver.entries = 3
    /\ history = <<>>

(***************************************************************************)
(* split_data: SpecSplit.                                                  *)
(***************************************************************************)
\* train_ratio + val_ratio + test_ratio of the last call, in thousandths.
RatioSum(c) == c.ratios[1] + c.ratios[2] + c.ratios[3]
IsList(x) == DOMAIN x = 1..Len(x)

C17_SplitSizes ==
    (call.op = "split_data" /\ ~raised) =>
        LET n == Len(records)
            nTrain == (n * call.ratios[1]) \div 1000
            nVal == (n * call.ratios[2]) \div 1000
        IN  /\ Len(out.value[1]) = nTrain
            /\ Len(out.value[2]) = nVal
            /\ Len(out.value[3]) = n - nTrain - nVal

\* C18: two split_data calls with the same list, ratios and seed return the
\* same result, whatever calls were made between them.
C18_SplitIsDeterministic ==
    (call.op = "split_data" /\ first.done
        /\ first.ratios = call.ratios /\ first.seed = call.seed) =>
        out = first.out

\* A call repeats an earlier one, other calls having been made since, and
\* returns the same reordered lists.
C18_Witness ==
    /\ call.op = "split_data"
    /\ first.done
    /\ ~first.latest
    /\ first.ratios = call.ratios
    /\ first.seed = call.seed
    /\ ~raised
    /\ Len(records) = 3
    /\ Len(out.value[1]) = 2
    /\ out.value[1] /= SubSeq(records, 1, 2)
    /\ out = first.out

(***************************************************************************)
(* prepare_data: SpecPrepare.                                              *)
(***************************************************************************)
\* The canonical fields of a kind, each with its aliases in priority order.
CanonicalAliases(ft) ==
    IF ft = "conversational"
    THEN [user |-> <<"user", "input", "question">>,
          assistant |-> <<"assistant", "output", "answer">>,
          context |-> <<"context">>]
    ELSE [text |-> <<"text", "input", "user">>,
          label |-> <<"label", "category", "class">>]

\* The value is neither missing (None) nor the empty string.
NonEmpty(v) == v /= None /\ v /= <<>>

\* The value of the first alias that is non-empty in the raw record, and the
\* empty string when none is.
FirstNonEmpty(item, aliases) ==
    LET hits == {p \in 1..Len(aliases) :
                    aliases[p] \in DOMAIN item /\ NonEmpty(item[aliases[p]])}
    IN  IF hits = {} THEN <<>>
        ELSE item[aliases[CHOOSE p \in hits : \A q \in hits : p <= q]]

\* The normalized record the claims describe for a raw record.
Normalized(item, ft) ==
    IF ft \in {"conversational", "classifier"}
    THEN [f \in DOMAIN CanonicalAliases(ft) |->
              FirstNonEmpty(item, CanonicalAliases(ft)[f])]
    ELSE item

HasNonEmptyField(rec) == \E f \in DOMAIN rec : NonEmpty(rec[f])

\* C19: for the conversational and the classifier kind every record produced
\* has exactly the canonical keys of its kind, each holding the value of the
\* first non-empty alias of the raw record it was built from, or the empty
\* string when none is.
C19_AliasResolution ==
    (call.op = "prepare_data" /\ call.format_type \in {"conversational", "classifier"}) =>
        LET ft == call.format_type
        IN  /\ \A j \in 1..Len(out.value) :
                  /\ DOMAIN out.value[j] = DOMAIN CanonicalAliases(ft)
                  /\ \E i \in 1..Len(records) : out.value[j] = Normalized(records[i], ft)
            /\ \A i \in 1..Len(records) :
                  HasNonEmptyField(Normalized(records[i], ft)) =>
                      \E j \in 1..Len(out.value) :
                          out.value[j] = Normalized(records[i], ft)

\* A conversational call on a list holding a record whose user is empty,
\* whose input is None and whose question and output are set.
C19_Witness ==
    /\ call.op = "prepare_data"
    /\ call.format_type = "conversational"
    /\ Len(records) = 1
    /\ records[1] = [user |-> <<>>, input |-> None, question |-> <<"q">>,
                      output |-> <<"o">>]
    /\ out.value = <<[user |-> <<"q">>, assistant |-> <<"o">>, context |-> <<>>]>>

\* C20: the output is the sub-sequence, in input order, of the normalized
\* records with at least one non-empty field, and the input list is unchanged.
C20_OutputIsFilteredSubsequence ==
    [][ call'.op = "prepare_data" =>
            LET ft == call'.format_type
                kept == {i \in 1..Len(records) :
                            HasNonEmptyField(Normalized(records[i], ft))}
                rank(i) == Cardinality({j \in kept : j <= i})
            IN  /\ records' = records
                /\ Len(out'.value) = Cardinality(kept)
                /\ \A i \in kept : out'.value[rank(i)] = Normalized(records[i], ft) ]_vars

\* A classifier call on three records, the middle one dropped and the other
\* two kept in their order.
C20_Witness ==
    /\ call.op = "prepare_data"
    /\ call.format_type = "classifier"
    /\ Len(records) = 3
    /\ records[1] = [class |-> <<"k">>]
    /\ records[2] = [user |-> <<>>, assistant |-> <<>>, context |-> None]
    /\ records[3] = [text |-> <<"t">>, label |-> <<"l">>]
    /\ out.value = <<[text |-> <<>>, label |-> <<"k">>],
                     [text |-> <<"t">>, label |-> <<"l">>]>>

(***************************************************************************)
(* Properties of load_training_data, checked under SpecLoad.               *)
(***************************************************************************)
\* The entry is a regular file with a supported extension whose read and
\* parse both succeed.
LoadsWithoutError(e) ==
    /\ e.regular
    /\ e.ext \in Supported
    /\ e.readable
    /\ IF e.ext = ".json" THEN e.body.json /= "corrupt"
       ELSE \A i \in 1..Len(e.body.lines) : e.body.lines[i].t /= "bad"

\* The records an entry holds.
RecordsOf(e) ==
    IF e.ext = ".json"
    THEN (IF e.body.json = "list" THEN e.body.items
          ELSE IF e.body.json = "dict" THEN <<e.body.item>> ELSE <<>>)
    ELSE LET ls == SelectSeq(e.body.lines, LAMBDA l : l.t = "rec")
         IN  [i \in 1..Len(ls) |-> ls[i].rec]

\* The records of the entries up to the n-th that load without error.
RECURSIVE CleanRecords(_, _)
CleanRecords(entries, n) ==
    IF n = 0 THEN <<>>
    ELSE CleanRecords(entries, n - 1)
         \o (IF LoadsWithoutError(entries[n]) THEN RecordsOf(entries[n]) ELSE <<>>)

\* C21: load_training_data on a directory never raises and returns exactly
\* the records of the regular, supported files that load without error, in
\* listing order; a file that fails contributes nothing; a path that is
\* neither a file nor a directory yields the empty list.
C21_DirectoryLoadIsolatesFailures ==
    (call.op = "load_training_data") =>
        /\ (disk.exists /\ disk.isdir) =>
               /\ ~raised
               /\ out.value = CleanRecords(disk.entries, Len(disk.entries))
        /\ ~disk.exists => (~raised /\ out.value = <<>>)

\* A directory was loaded in which a file failed after some of its records
\* had been parsed, next to a file that loaded.
C21_Witness ==
    /\ call.op = "load_training_data"
    /\ disk.exists /\ disk.isdir
    /\ \E i \in 1..Len(disk.entries) :
           /\ disk.entries[i].ext = ".jsonl"
           /\ ~LoadsWithoutError(disk.entries[i])
    /\ out.value /= <<>>

(***************************************************************************)
(* Properties of create_agent, checked under SpecFactory.                  *)
(***************************************************************************)
\* C22: create_agent returns an agent of the kind its name designates,
\* compared without regard to case, and for every other name raises
\* ValueError and constructs nothing.
C22_FactoryDispatch ==
    (call.op = "create_agent") =>
        IF Lower(call.agent_type) \in {KeyConversational, KeyClassifier, KeyCustom}
        THEN /\ ~raised
             /\ phase = "ready"
             /\ kind = agents[Lower(call.agent_type)]
        ELSE /\ raised
             /\ out.error = "ValueError"
             /\ kind = "none"
             /\ phase = "new"

\* C23: constructing an agent of any variant on a config path with no file
\* does not fail and gives the empty config, the name 'Agent', the version
\* '1.0.0' and an empty history.
C23_MissingConfigGivesDefaults ==
    (/\ call.op = "create_agent"
     /\ kind /= "none"
     /\ ~call.config_path.exists) =>
        /\ ~raised
        /\ phase = "ready"
        /\ config = EmptyDict
        /\ name = DefaultName
        /\ version = DefaultVersion
        /\ history = <<>>

(***************************************************************************)
(* Properties of the inference driver's agent, checked under SpecInference.*)
(***************************************************************************)
\* C27: whenever a ConversationalAgent exists, whether built by its
\* constructor, by load, or overlaid by the inference driver, its provider
\* is the one its current config names (default 'openai') and its client,
\* when present, is that provider's.
C27_ProviderFollowsConfig ==
    (kind = "conversational" /\ phase = "ready") =>
        /\ provider = Get(Get(config, "model", EmptyDict), "provider", "openai")
        /\ client.present =>
               client.provider = Get(Get(config, "model", EmptyDict), "provider", "openai")

(***************************************************************************)
(* Properties of the training driver, checked under SpecTrain.             *)
(***************************************************************************)
\* C24: every metrics document the training driver writes has the fields
\* accuracy, total_samples and correct_predictions, with
\* 0 <= correct_predictions <= total_samples, total_samples the number of
\* test records, and accuracy = correct_predictions / total_samples (0 when
\* there are no test records).
C24_MetricsDocumentIsComplete ==
    (call.op = "train_main") =>
        /\ DOMAIN out.metrics = {"accuracy", "total_samples", "correct_predictions"}
        /\ out.metrics.correct_predictions \in 0..out.metrics.total_samples
        /\ out.metrics.total_samples =
              (IF call.has_test_data /\ ~call.no_eval THEN Len(records) ELSE 0)
        /\ out.metrics.accuracy =
              IF out.metrics.total_samples = 0 THEN Fraction(0, 1)
              ELSE Fraction(out.metrics.correct_predictions, out.metrics.total_samples)

(***************************************************************************)
(* Properties of truncate_text, checked under SpecTruncate.                *)
(***************************************************************************)
EndsWith(s, suffix) ==
    /\ Len(suffix) <= Len(s)
    /\ SubSeq(s, Len(s) - Len(suffix) + 1, Len(s)) = suffix

\* C25: truncate_text returns the text unchanged when it is no longer than
\* max_length, and otherwise a string no longer than max_length that ends
\* with the suffix, for every text, max_length and suffix.
C25_TruncateBounds ==
    (call.op = "truncate_text") =>
        IF Len(call.text) <= call.max_length
        THEN out.value = call.text
        ELSE /\ Len(out.value) <= call.max_length
             /\ EndsWith(out.value, call.suffix)

(***************************************************************************)
(* Further properties of split_data, checked under SpecSplit.              *)
(***************************************************************************)
\* The number of positions of s that hold x.
Occurrences(s, x) == Cardinality({i \in 1..Len(s) : s[i] = x})

\* s holds every element of t exactly as often as t does.
IsPermutationOf(s, t) ==
    /\ Len(s) = Len(t)
    /\ \A i \in 1..Len(t) : Occurrences(s, t[i]) = Occurrences(t, t[i])

\* C26: for every ratio triple split_data accepts, train + validation + test
\* is a permutation of the input (every record exactly once, the three
\* lists not overlapping).
C26_SplitIsPartition ==
    (call.op = "split_data" /\ ~raised) =>
        IsPermutationOf(out.value[1] \o out.value[2] \o out.value[3], records)

(***************************************************************************)
(* Properties of retry_on_error, checked under SpecRetry.                  *)
(***************************************************************************)
\* The invocations the wrapper made, in order.
Invocations(trace) == SelectSeq(trace, LAMBDA e : e.ev = "call")

\* The invocations among the first n that succeed.
Successes(outcomes, n) == {i \in 1..n : outcomes[i]}

Least(S) == CHOOSE x \in S : \A y \in S : x <= y

\* C28: for every max_retries, delay and sequence of outcomes the wrapped
\* function is invoked until its first success and at most max_retries
\* times; the wrapper returns the result of the first success, or raises the
\* exception of the last invocation when all fail; it sleeps for delay only
\* between two consecutive invocations.
C28_RetryUntilFirstSuccess ==
    (call.op = "retry") =>
        LET n == Len(Invocations(out.trace))
            ok == Successes(call.outcomes, call.max_retries)
        IN  /\ n <= call.max_retries
            /\ \A i \in 1..n : Invocations(out.trace)[i].index = i
            /\ IF ok /= {}
               THEN out.how = "returned" /\ out.index = Least(ok) /\ n = Least(ok)
               ELSE out.how = "raised" /\ out.index = n /\ n = call.max_retries
            /\ \A k \in 1..Len(out.trace) :
                   out.trace[k].ev = "sleep" =>
                       /\ out.trace[k].secs = call.delay
                       /\ 1 < k /\ k < Len(out.trace)
                       /\ out.trace[k - 1].ev = "call"
                       /\ out.trace[k + 1].ev = "call"

(***************************************************************************)
(* Properties of interactive_mode, checked under SpecInteractive.          *)
(***************************************************************************)
\* C29: once an exit command has been entered, an interrupt has occurred or
\* the input stream is exhausted, interactive_mode has returned (and so
\* calls agent.process no more); an exception raised by agent.process does
\* not end the session.
C29_SessionEndsOnExitInterruptOrEof ==
    (call.op = "input") =>
        /\ call.handled \in {"exit", "interrupt", "eof error"} => out.done
        /\ call.handled = "process raised" => ~out.done

(***************************************************************************)
(* Properties of ReproductorMusica, checked under SpecPlayer.              *)
(***************************************************************************)
\* C30: after any sequence of operations from the initial state,
\* cancion_actual is -1 or a valid index into lista_reproduccion, and when
\* it is a valid index it designates the song that was last started.
C30_CurrentIndexDesignatesStartedSong ==
    \/ cancion_actual = 0 - 1
    \/ /\ 0 <= cancion_actual
       /\ cancion_actual < Len(lista_reproduccion)
       /\ At(lista_reproduccion, cancion_actual) = sonando

\* A song before the current one has just been removed while another song
\* remains current.
C30_Witness ==
    /\ call.op = "eliminar_cancion"
    /\ call.indice >= 0
    /\ cancion_actual >= call.indice
    /\ Len(lista_reproduccion) >= 2

====
